---------------------------- MODULE Spec2Model ----------------------------
(***************************************************************************)
(* Model of the script patch/edit engine of the HISE MCP server:           *)
(* src/src/script-utils.ts (hunk-header normalizer, patch applier, line    *)
(* and string editors, size gate) and the line operations of               *)
(* HiseClient.editScript.                                                  *)
(*                                                                         *)
(* A JavaScript string is a sequence of one-character strings, so that     *)
(* split, join, includes, replace, trim, parseInt and number formatting    *)
(* are computed character by character, as the code computes them.         *)
(***************************************************************************)
EXTENDS Integers, Sequences, FiniteSets, TLC

VARIABLES pc, args, ret, hise, scriptCache

vars == <<pc, args, ret, hise, scriptCache>>

(***************************************************************************)
(* JavaScript string primitives.                                           *)
(***************************************************************************)
NL == "\n"

\* All sequences over S of length 0..n.
SeqUpTo(S, n) == UNION {[1..k -> S] : k \in 0..n}

\* s.substring(from) with a 0-based index: Drop(s, n) removes the first n.
Drop(s, n) == SubSeq(s, n + 1, Len(s))

Take(s, n) == SubSeq(s, 1, n)

\* s.startsWith(p)
StartsWith(s, p) == Len(p) <= Len(s) /\ Take(s, Len(p)) = p

\* s.indexOf(p): the 0-based index of the first occurrence, -1 when absent.
IndexOf(s, p) ==
  LET hits == {i \in 0..(Len(s) - Len(p)) : SubSeq(s, i + 1, i + Len(p)) = p}
  IN  IF hits = {} THEN -1 ELSE CHOOSE i \in hits : \A j \in hits : i <= j

\* s.includes(p)
Includes(s, p) == IndexOf(s, p) >= 0

\* s.split(sep) for a non-empty separator: cut at each occurrence, found
\* left to right, the search resuming after the separator.
RECURSIVE SplitNonEmpty(_, _)
SplitNonEmpty(s, sep) ==
  LET i == IndexOf(s, sep)
  IN  IF i < 0 THEN <<s>>
      ELSE <<Take(s, i)>> \o SplitNonEmpty(Drop(s, i + Len(sep)), sep)

\* s.split(sep): with the empty separator the result is the array of the
\* characters of s (the empty array for the empty string).
Split(s, sep) ==
  IF sep = <<>> THEN [i \in 1..Len(s) |-> <<s[i]>>] ELSE SplitNonEmpty(s, sep)

\* parts.join(sep)
RECURSIVE Join(_, _)
Join(parts, sep) ==
  IF Len(parts) = 0 THEN <<>>
  ELSE IF Len(parts) = 1 THEN parts[1]
  ELSE parts[1] \o sep \o Join(Tail(parts), sep)

\* The replacement-template expansion of String.prototype.replace when the
\* pattern is a string (no capture groups): $$ is a dollar, $& the match,
\* $` the text before the match, $' the text after it; any other use of $
\* is literal.
RECURSIVE GetSubstitution(_, _, _, _)
GetSubstitution(matched, str, position, replacement) ==
  IF replacement = <<>> THEN <<>>
  ELSE IF replacement[1] = "$" /\ Len(replacement) >= 2
    THEN LET c == replacement[2]
             rest == GetSubstitution(matched, str, position, Drop(replacement, 2))
         IN  IF c = "$" THEN <<"$">> \o rest
             ELSE IF c = "&" THEN matched \o rest
             ELSE IF c = "`" THEN Take(str, position) \o rest
             ELSE IF c = "'" THEN Drop(str, position + Len(matched)) \o rest
             ELSE <<"$">> \o GetSubstitution(matched, str, position, Tail(replacement))
  ELSE <<replacement[1]>> \o GetSubstitution(matched, str, position, Tail(replacement))

\* s.replace(pattern, replacement) with a string pattern: the first
\* occurrence only, the replacement expanded as a template.
Replace(s, pattern, replacement) ==
  LET i == IndexOf(s, pattern)
  IN  IF i < 0 THEN s
      ELSE Take(s, i) \o GetSubstitution(pattern, s, i, replacement)
             \o Drop(s, i + Len(pattern))

\* The characters String.prototype.trim removes (those the model draws).
IsWhiteSpace(c) == c \in {" ", NL, "\t", "\r"}

\* s.trim() = ''
TrimIsEmpty(s) == \A i \in 1..Len(s) : IsWhiteSpace(s[i])

(***************************************************************************)
(* editStringInScript                                                      *)
(***************************************************************************)
\* A mutant: the uniqueness gate compares with the wrong threshold.
EditStringGateOffByOne(occurrences, replaceAll) == occurrences > 2 /\ ~replaceAll

\* The gate of the ambiguity failure.
EditStringGate(occurrences, replaceAll) == occurrences > 1 /\ ~replaceAll

editStringInScript(script, oldString, newString, replaceAll) ==
  IF ~Includes(script, oldString)
    THEN [success |-> FALSE, error |-> [msg |-> "oldString not found in script"]]
  ELSE LET occurrences == Len(Split(script, oldString)) - 1
       IN  IF EditStringGate(occurrences, replaceAll)
             THEN [success |-> FALSE,
                   error |-> [msg |-> "oldString found N times", N |-> occurrences]]
           ELSE [success |-> TRUE,
                 script |-> IF replaceAll
                              THEN Join(Split(script, oldString), newString)
                              ELSE Replace(script, oldString, newString)]

(***************************************************************************)
(* The client state the pure functions never touch.                        *)
(***************************************************************************)
NoClient == [none |-> TRUE]

ClientIdle == hise = NoClient /\ scriptCache = NoClient

(***************************************************************************)
(* Specification of editStringInScript: one call per behaviour, the        *)
(* arguments drawn from bounded sets.                                      *)
(***************************************************************************)
MaxScriptLen == 3
MaxOldLen == 2
MaxNewLen == 2

ScriptChars == {"a", "b"}

ReplacementChars == {"a", "$", "&", "'"}

InitEdit ==
  /\ pc = "call"
  /\ args \in [script : SeqUpTo(ScriptChars, MaxScriptLen),
               oldString : SeqUpTo(ScriptChars, MaxOldLen),
               newString : SeqUpTo(ReplacementChars, MaxNewLen),
               replaceAll : BOOLEAN]
  /\ ret = [none |-> TRUE]
  /\ ClientIdle

CallEditString ==
  /\ pc = "call"
  /\ ret' = editStringInScript(args.script, args.oldString, args.newString,
                               args.replaceAll)
  /\ pc' = "done"
  /\ UNCHANGED <<args, hise, scriptCache>>

NextEdit == CallEditString

SpecEdit == InitEdit /\ [][NextEdit]_vars


(***************************************************************************)
(* C5. Ambiguity gate: with replaceAll = false the call returns the        *)
(* multiplicity failure exactly when oldString occurs more than once       *)
(* (occurrences counted by non-overlapping split), and that failure names  *)
(* the occurrence count; with replaceAll = true the only failure left is   *)
(* "not found", never one caused by multiplicity.                          *)
(***************************************************************************)
SplitCount(s, sep) == Len(Split(s, sep)) - 1

IsMultiplicityFailure(r) == ~r.success /\ r.error.msg = "oldString found N times"

AmbiguityGate ==
  pc = "done" =>
    LET n == SplitCount(args.script, args.oldString)
    IN  /\ ~args.replaceAll => (IsMultiplicityFailure(ret) <=> n > 1)
        /\ ~args.replaceAll =>
             (~ret.success <=> (n > 1 \/ ~Includes(args.script, args.oldString)))
        /\ IsMultiplicityFailure(ret) => ret.error.N = n
        /\ args.replaceAll =>
             (~ret.success <=> ~Includes(args.script, args.oldString))

AmbiguityGateWitness ==
  /\ pc = "done"
  /\ ~args.replaceAll
  /\ args.oldString # <<>>
  /\ IsMultiplicityFailure(ret)
  /\ ret.error.N = 2

(***************************************************************************)
(* C6. A successful editStringInScript returns the input with the          *)
(* occurrence(s) of oldString replaced by newString taken verbatim: the    *)
(* single occurrence when replaceAll = false (text before it, newString,   *)
(* text after it), every non-overlapping occurrence when replaceAll =      *)
(* true; when oldString occurs exactly once both modes return the same     *)
(* document.  The code's single replacement expands $-patterns of          *)
(* newString, so this statement is violated.                               *)
(***************************************************************************)
ReplaceVerbatim ==
  (pc = "done" /\ ret.success) =>
    LET i == IndexOf(args.script, args.oldString)
        once == Take(args.script, i) \o args.newString
                  \o Drop(args.script, i + Len(args.oldString))
        other == editStringInScript(args.script, args.oldString, args.newString,
                                    ~args.replaceAll)
    IN  /\ ~args.replaceAll => ret.script = once
        /\ args.replaceAll =>
             ret.script = Join(Split(args.script, args.oldString), args.newString)
        /\ SplitCount(args.script, args.oldString) = 1 =>
             (other.success /\ other.script = ret.script)


(***************************************************************************)
(* shouldAllowSetScript                                                    *)
(***************************************************************************)
\* A mutant: the threshold itself is refused.
shouldAllowSetScriptStrict(existingScript, maxLines) ==
  IF existingScript = <<>> \/ TrimIsEmpty(existingScript) THEN TRUE
  ELSE Len(Split(existingScript, <<NL>>)) < maxLines

shouldAllowSetScript(existingScript, maxLines) ==
  IF existingScript = <<>> \/ TrimIsEmpty(existingScript) THEN TRUE
  ELSE LET lineCount == Len(Split(existingScript, <<NL>>))
       IN  lineCount <= maxLines

MaxExistingLen == 4
MaxGateLines == 3

GateChars == {"a", " ", NL}

InitGate ==
  /\ pc = "call"
  /\ args \in [existingScript : SeqUpTo(GateChars, MaxExistingLen),
               maxLines : 0..MaxGateLines]
  /\ ret = [none |-> TRUE]
  /\ ClientIdle

CallShouldAllowSetScript ==
  /\ pc = "call"
  /\ ret' = shouldAllowSetScript(args.existingScript, args.maxLines)
  /\ pc' = "done"
  /\ UNCHANGED <<args, hise, scriptCache>>

NextGate == CallShouldAllowSetScript

SpecGate == InitGate /\ [][NextGate]_vars

\* The number of lines of a text, counted without split: one more than the
\* number of newline characters.
NewlineCount(s) == Cardinality({i \in 1..Len(s) : s[i] = NL})

LineCountOf(s) == NewlineCount(s) + 1

fixLineInScriptOffByOne(script, line, content) ==
  LET lines == Split(script, <<NL>>)
  IN  IF line < 1 \/ line >= Len(lines)
        THEN [threw |-> TRUE,
              error |-> [msg |-> "Line L out of range (valid: F-T)",
                         L |-> line, F |-> 1, T |-> Len(lines)]]
      ELSE [threw |-> FALSE,
            value |-> Join([lines EXCEPT ![line] = content], <<NL>>)]

fixLineInScript(script, line, content) ==
  LET lines == Split(script, <<NL>>)
  IN  IF line < 1 \/ line > Len(lines)
        THEN [threw |-> TRUE,
              error |-> [msg |-> "Line L out of range (valid: F-T)",
                         L |-> line, F |-> 1, T |-> Len(lines)]]
      ELSE [threw |-> FALSE,
            value |-> Join([lines EXCEPT ![line] = content], <<NL>>)]

MaxFixScriptLen == 3
MaxContentLen == 2

FixScriptChars == {"a", "b", NL}

ContentChars == {"c", NL}

\* The line numbers drawn: from below 1 to beyond the longest script.
FixLineNumbers == (0 - 1)..(MaxFixScriptLen + 2)

InitFixLine ==
  /\ pc = "call"
  /\ args \in [script : SeqUpTo(FixScriptChars, MaxFixScriptLen),
               line : FixLineNumbers,
               content : SeqUpTo(ContentChars, MaxContentLen)]
  /\ ret = [none |-> TRUE]
  /\ ClientIdle

CallFixLine ==
  /\ pc = "call"
  /\ ret' = fixLineInScript(args.script, args.line, args.content)
  /\ pc' = "done"
  /\ UNCHANGED <<args, hise, scriptCache>>

NextFixLine == CallFixLine

SpecFixLine == InitFixLine /\ [][NextFixLine]_vars

(***************************************************************************)
(* C8. fixLineInScript throws exactly when line < 1 or line > lineCount,   *)
(* the error naming the valid range 1-lineCount; for every line in         *)
(* 1..lineCount it succeeds.                                               *)
(***************************************************************************)
FixLineBounds ==
  pc = "done" =>
    LET n == LineCountOf(args.script)
    IN  /\ ret.threw <=> (args.line < 1 \/ args.line > n)
        /\ ret.threw => (ret.error.L = args.line /\ ret.error.F = 1 /\ ret.error.T = n)

FixLineBoundsWitness ==
  /\ pc = "done"
  /\ LineCountOf(args.script) >= 2
  /\ args.line = LineCountOf(args.script) + 1
  /\ ret.threw
  /\ ret.error.T = args.line - 1

(***************************************************************************)
(* C9. A successful fixLineInScript replaces exactly one line: the result  *)
(* has as many lines as the input, line `line` of the result is content,   *)
(* and every other line equals the input line at the same position.  The   *)
(* code stores content unsplit, so a content holding a newline adds lines  *)
(* and this statement is violated.                                         *)
(***************************************************************************)
FixLineReplacesOneLine ==
  (pc = "done" /\ ~ret.threw) =>
    LET before == Split(args.script, <<NL>>)
        after == Split(ret.value, <<NL>>)
    IN  /\ Len(after) = Len(before)
        /\ after[args.line] = args.content
        /\ \A k \in 1..Len(before) : k # args.line => after[k] = before[k]


(***************************************************************************)
(* Numbers in text: parseInt of a digit string and the decimal text of a   *)
(* number in a template literal.                                           *)
(***************************************************************************)
Digits == <<"0", "1", "2", "3", "4", "5", "6", "7", "8", "9">>

IsDigit(c) == \E d \in 1..Len(Digits) : Digits[d] = c

DigitValue(c) == (CHOOSE d \in 1..Len(Digits) : Digits[d] = c) - 1

\* parseInt(ds) for a non-empty string of decimal digits.
RECURSIVE ParseInt(_)
ParseInt(ds) ==
  IF Len(ds) = 0 THEN 0
  ELSE ParseInt(Take(ds, Len(ds) - 1)) * Len(Digits) + DigitValue(ds[Len(ds)])

\* `${n}` for a non-negative integer n.
RECURSIVE NumberToString(_)
NumberToString(n) ==
  IF n < Len(Digits) THEN <<Digits[n + 1]>>
  ELSE NumberToString(n \div Len(Digits)) \o <<Digits[(n % Len(Digits)) + 1]>>

\* The string of a literal of the source, character by character.
AtAt == <<"@", "@">>

(***************************************************************************)
(* The hunk-header pattern of fixPatchHeaders,                             *)
(*   ^ @@ \s* - (\d+) (?:,\d+)? \s* \+ (\d+) (?:,\d+)? \s* @@ (rest) $     *)
(* where rest is any run of characters other than line terminators,        *)
(* matched left to right.  Each step returns the rest of the line, or      *)
(* Fail.  The greedy quantifiers never need to give characters back: the   *)
(* character after \s* is not a space and the one after \d+ is no digit.   *)
(***************************************************************************)
Fail == <<"fail">>

\* \s*
RECURSIVE SkipSpaces(_)
SkipSpaces(s) ==
  IF Len(s) > 0 /\ IsWhiteSpace(s[1]) THEN SkipSpaces(Tail(s)) ELSE s

\* The length of the longest prefix of digits: what \d+ consumes.
RECURSIVE DigitPrefixLen(_)
DigitPrefixLen(s) ==
  IF Len(s) > 0 /\ IsDigit(s[1]) THEN 1 + DigitPrefixLen(Tail(s)) ELSE 0

\* A literal.
Expect(s, lit) == IF s # Fail /\ StartsWith(s, lit) THEN Drop(s, Len(lit)) ELSE Fail

\* (?:,\d+)?
SkipOptionalCount(s) ==
  IF s # Fail /\ Len(s) >= 2 /\ s[1] = "," /\ IsDigit(s[2])
    THEN Drop(s, 1 + DigitPrefixLen(Tail(s)))
  ELSE s

\* -(\d+) or \+(\d+): the sign, then at least one digit.
ExpectNumber(s, sign) ==
  LET r == Expect(s, <<sign>>)
  IN  IF r # Fail /\ DigitPrefixLen(r) > 0 THEN r ELSE Fail

\* . matches any character but a line terminator.
IsLineTerminator(c) == c \in {NL, "\r"}

headerMatch(line) ==
  LET afterOpen == Expect(line, AtAt)
      atOld == IF afterOpen = Fail THEN Fail
               ELSE ExpectNumber(SkipSpaces(afterOpen), "-")
      oldDigits == IF atOld = Fail THEN <<>> ELSE Take(atOld, DigitPrefixLen(atOld))
      afterOld == IF atOld = Fail THEN Fail
                  ELSE SkipOptionalCount(Drop(atOld, DigitPrefixLen(atOld)))
      atNew == IF afterOld = Fail THEN Fail
               ELSE ExpectNumber(SkipSpaces(afterOld), "+")
      newDigits == IF atNew = Fail THEN <<>> ELSE Take(atNew, DigitPrefixLen(atNew))
      afterNew == IF atNew = Fail THEN Fail
                  ELSE SkipOptionalCount(Drop(atNew, DigitPrefixLen(atNew)))
      suffix == IF afterNew = Fail THEN Fail
                ELSE Expect(SkipSpaces(afterNew), AtAt)
  IN  IF suffix = Fail \/ \E k \in 1..Len(suffix) : IsLineTerminator(suffix[k])
        THEN [matched |-> FALSE]
      ELSE [matched |-> TRUE, oldStart |-> oldDigits, newStart |-> newDigits,
            suffix |-> suffix]

(***************************************************************************)
(* fixPatchHeaders                                                         *)
(***************************************************************************)
\* The index j at which the scan of the hunk after header i stops: the next
\* line starting with '@@', or one past the last line.
HunkScanEnd(lines, i) ==
  LET stops == {j \in (i + 1)..Len(lines) : StartsWith(lines[j], AtAt)}
  IN  IF stops = {} THEN Len(lines) + 1
      ELSE CHOOSE j \in stops : \A k \in stops : j <= k

\* A mutant: an exactly empty line is not counted as context.
IsContextLineNoEmpty(l) == StartsWith(l, <<" ">>)

\* The lines the scan counts on both sides.
IsContextLine(l) == StartsWith(l, <<" ">>) \/ l = <<>>

oldLinesOf(lines, i) ==
  Cardinality({j \in (i + 1)..(HunkScanEnd(lines, i) - 1) :
                 StartsWith(lines[j], <<"-">>)
                 \/ (~StartsWith(lines[j], <<"+">>) /\ IsContextLine(lines[j]))})

newLinesOf(lines, i) ==
  Cardinality({j \in (i + 1)..(HunkScanEnd(lines, i) - 1) :
                 (~StartsWith(lines[j], <<"-">>) /\ StartsWith(lines[j], <<"+">>))
                 \/ (~StartsWith(lines[j], <<"-">>) /\ ~StartsWith(lines[j], <<"+">>)
                       /\ IsContextLine(lines[j]))})

\* A mutant: the header is emitted without the text after the closing '@@'.
EmitHeaderNoSuffix(oldStart, oldLines, newStart, newLines, suffix) ==
  AtAt \o <<" ", "-">> \o NumberToString(oldStart) \o <<",">>
    \o NumberToString(oldLines) \o <<" ", "+">> \o NumberToString(newStart)
    \o <<",">> \o NumberToString(newLines) \o <<" ">> \o AtAt

\* A mutant: a space is put between the closing '@@' and the suffix.
EmitHeaderSpaced(oldStart, oldLines, newStart, newLines, suffix) ==
  AtAt \o <<" ", "-">> \o NumberToString(oldStart) \o <<",">>
    \o NumberToString(oldLines) \o <<" ", "+">> \o NumberToString(newStart)
    \o <<",">> \o NumberToString(newLines) \o <<" ">> \o AtAt \o <<" ">> \o suffix

\* `@@ -${oldStart},${oldLines} +${newStart},${newLines} @@${suffix}`
EmitHeader(oldStart, oldLines, newStart, newLines, suffix) ==
  AtAt \o <<" ", "-">> \o NumberToString(oldStart) \o <<",">>
    \o NumberToString(oldLines) \o <<" ", "+">> \o NumberToString(newStart)
    \o <<",">> \o NumberToString(newLines) \o <<" ">> \o AtAt \o suffix

fixPatchHeaders(patch) ==
  LET lines == Split(patch, <<NL>>)
      result == [i \in 1..Len(lines) |->
                   LET m == headerMatch(lines[i])
                   IN  IF m.matched
                         THEN EmitHeader(ParseInt(m.oldStart), oldLinesOf(lines, i),
                                         ParseInt(m.newStart), newLinesOf(lines, i),
                                         m.suffix)
                       ELSE lines[i]]
  IN  Join(result, <<NL>>)


(***************************************************************************)
(* Specification of fixPatchHeaders: a patch text is drawn as lines joined *)
(* by newlines, normalized, and the result normalized again.               *)
(***************************************************************************)
MaxFixLines == 3

\* Hunk headers as a patch author writes them: with counts (possibly
\* wrong), without counts, without the optional spaces, with a suffix.
HeaderWithCounts(oldStart, oldCount, newStart, newCount) ==
  AtAt \o <<" ", "-">> \o oldStart \o <<",">> \o oldCount \o <<" ", "+">> \o newStart
    \o <<",">> \o newCount \o <<" ">> \o AtAt

HeaderNoCounts(oldStart, newStart) ==
  AtAt \o <<" ", "-">> \o oldStart \o <<" ", "+">> \o newStart \o <<" ">> \o AtAt

HeaderTight(oldStart, oldCount, newStart) ==
  AtAt \o <<"-">> \o oldStart \o <<",">> \o oldCount \o <<"+">> \o newStart \o AtAt

FixPatchLines ==
  { HeaderWithCounts(<<"1">>, <<"9">>, <<"1">>, <<"9">>),
    HeaderNoCounts(<<"0", "2">>, <<"2">>),
    HeaderTight(<<"3">>, <<"1">>, <<"3">>) \o <<" ", "f">>,
    AtAt \o <<" ", "x">>,
    <<" ", "a">>, <<"-", "a">>, <<"+", "b">>, <<>>, <<"a">>, <<"\\">> }

InitFix ==
  /\ pc = "call"
  /\ \E ls \in SeqUpTo(FixPatchLines, MaxFixLines) : args = [patch |-> Join(ls, <<NL>>)]
  /\ ret = [none |-> TRUE]
  /\ ClientIdle

Normalize ==
  /\ pc = "call"
  /\ ret' = [fixed |-> fixPatchHeaders(args.patch)]
  /\ pc' = "once"
  /\ UNCHANGED <<args, hise, scriptCache>>

NormalizeAgain ==
  /\ pc = "once"
  /\ ret' = [fixed |-> ret.fixed, again |-> fixPatchHeaders(ret.fixed)]
  /\ pc' = "twice"
  /\ UNCHANGED <<args, hise, scriptCache>>

NextFix == Normalize \/ NormalizeAgain

SpecFix == InitFix /\ [][NextFix]_vars

\* The two counts a canonical header "@@ -a,b +c,d @@..." carries, read
\* back from its text: the digits after the first and the second comma.
CountAfterComma(s) ==
  LET i == IndexOf(s, <<",">>)
  IN  ParseInt(SubSeq(s, i + 2, i + 1 + DigitPrefixLen(Drop(s, i + 1))))

HeaderOldCount(line) == CountAfterComma(line)

HeaderNewCount(line) == CountAfterComma(Drop(line, IndexOf(line, <<",">>) + 1))

\* The body of the hunk headed by line i: up to the next line that opens
\* with the header marker, or to the end of the text.
HunkBody(lines, i) ==
  {j \in (i + 1)..Len(lines) :
     \A k \in (i + 1)..j : ~(Len(lines[k]) >= 2 /\ lines[k][1] = "@" /\ lines[k][2] = "@")}

FirstCharIn(l, cs) == IF l = <<>> THEN "" \in cs ELSE l[1] \in cs

(***************************************************************************)
(* C2. Header invariant: after fixPatchHeaders every hunk header carries   *)
(* oldCount = (body lines starting with ' ' or exactly empty) + (body      *)
(* lines starting with '-') and newCount = (body lines starting with ' '   *)
(* or exactly empty) + (body lines starting with '+'), the body being      *)
(* every line between the header and the next header line or the end.      *)
(***************************************************************************)
HeaderInvariant ==
  pc \in {"once", "twice"} =>
    LET out == Split(ret.fixed, <<NL>>)
    IN  \A i \in 1..Len(out) :
          headerMatch(out[i]).matched =>
            LET body == HunkBody(out, i)
                context == Cardinality({j \in body : FirstCharIn(out[j], {" ", ""})})
                removed == Cardinality({j \in body : FirstCharIn(out[j], {"-"})})
                added == Cardinality({j \in body : FirstCharIn(out[j], {"+"})})
            IN  /\ HeaderOldCount(out[i]) = context + removed
                /\ HeaderNewCount(out[i]) = context + added

\* A hunk of a blank context line and a removed line whose written counts
\* were wrong.
HeaderInvariantWitness ==
  /\ pc = "once"
  /\ ret.fixed # args.patch
  /\ LET out == Split(ret.fixed, <<NL>>)
     IN  /\ Len(out) = 3
         /\ headerMatch(out[1]).matched
         /\ HeaderOldCount(out[1]) = 2
         /\ HeaderNewCount(out[1]) = 1
         /\ \E j \in 2..3 : out[j] = <<>>

(***************************************************************************)
(* C3. Idempotent normalization: fixPatchHeaders(fixPatchHeaders(p)) =     *)
(* fixPatchHeaders(p) for every patch text p.                              *)
(***************************************************************************)
IdempotentNormalization == pc = "twice" => ret.again = ret.fixed

IdempotentNormalizationWitness ==
  /\ pc = "twice"
  /\ ret.fixed # args.patch
  /\ ret.again = ret.fixed
  /\ \E i \in 1..Len(Split(args.patch, <<NL>>)) :
       /\ headerMatch(Split(args.patch, <<NL>>)[i]).matched
       /\ headerMatch(Split(args.patch, <<NL>>)[i]).suffix # <<>>


\* A header line read back from its text: the number after the first sign
\* character, and the text after the '@@' that closes the header.
StartAfter(line, sign) ==
  LET AtSign(i) == ParseInt(Take(Drop(line, i + 1), DigitPrefixLen(Drop(line, i + 1))))
  IN  AtSign(IndexOf(line, <<sign>>))

TextAfterClosing(line) ==
  LET After(rest) == Drop(rest, IndexOf(rest, AtAt) + Len(AtAt))
  IN  After(Drop(line, Len(AtAt)))

\* C18: fixPatchHeaders changes only hunk-header lines: the output has as
\* many lines as the input, every line that is not a hunk header equals
\* the input line at its position, and every header line is still a header
\* with the same old and new start numbers and the same text after the
\* closing '@@'.
OnlyHeadersChange ==
  LET Same(in, out) ==
        /\ Len(out) = Len(in)
        /\ \A i \in 1..Len(in) :
             IF headerMatch(in[i]).matched
               THEN /\ StartsWith(out[i], AtAt)
                    /\ StartAfter(out[i], "-") = StartAfter(in[i], "-")
                    /\ StartAfter(out[i], "+") = StartAfter(in[i], "+")
                    /\ TextAfterClosing(out[i]) = TextAfterClosing(in[i])
             ELSE out[i] = in[i]
  IN  pc = "once" => Same(Split(args.patch, <<NL>>), Split(ret.fixed, <<NL>>))

\* A header with a suffix and wrong counts followed by a line that looks
\* like a header but is none, and a removed line.
OnlyHeadersChangeWitness ==
  /\ pc = "once"
  /\ args.patch = Join(<<HeaderTight(<<"3">>, <<"1">>, <<"3">>) \o <<" ", "f">>,
                         AtAt \o <<" ", "x">>, <<"-", "a">>>>, <<NL>>)
  /\ ret.fixed = Join(<<HeaderWithCounts(<<"3">>, <<"0">>, <<"3">>, <<"0">>) \o <<" ", "f">>,
                        AtAt \o <<" ", "x">>, <<"-", "a">>>>, <<NL>>)

(***************************************************************************)
(* applyPatch of the 'diff' package, which applyPatchToScript imports: the *)
(* parser of a unified diff (strict about the counts of a hunk header) and *)
(* the fuzzy hunk application.  Lines hold no carriage return here, so the *)
(* package's conversion of line endings does nothing and is left out.      *)
(***************************************************************************)
DashDashDash == <<"-", "-", "-">>

PlusPlusPlus == <<"+", "+", "+">>

IndexColon == <<"I", "n", "d", "e", "x", ":">>

DiffWord == <<"d", "i", "f", "f">>

\* A prefix followed by a whitespace character.
StartsWithThenSpace(line, prefix) ==
  StartsWith(line, prefix) /\ Len(line) > Len(prefix) /\ IsWhiteSpace(line[Len(prefix) + 1])

\* The line that ends the metadata of a file: a file header or a hunk header.
EndsMetadata(line) ==
  \E prefix \in {DashDashDash, PlusPlusPlus, AtAt} : StartsWithThenSpace(line, prefix)

\* A file header line, '--- name' or '+++ name'.
IsFileHeader(line) ==
  \E prefix \in {DashDashDash, PlusPlusPlus} : StartsWithThenSpace(line, prefix)

\* The line that ends the hunks of a file: the start of the next file.
StartsNextIndex(line) ==
  \/ \E prefix \in {IndexColon, DiffWord, DashDashDash, PlusPlusPlus} :
       StartsWithThenSpace(line, prefix)
  \/ (Len(line) >= 67 /\ \A k \in 1..67 : line[k] = "=")

\* The optional count of the package's header pattern: ',' and digits.
OptionalCount(s) ==
  IF s # Fail /\ Len(s) >= 2 /\ s[1] = "," /\ IsDigit(s[2])
    THEN [digits |-> SubSeq(s, 2, 1 + DigitPrefixLen(Tail(s))),
          rest |-> Drop(s, 1 + DigitPrefixLen(Tail(s)))]
  ELSE [digits |-> <<>>, rest |-> s]

\* The package's header pattern, '@@ -a[,b] +c[,d] @@' with single spaces,
\* matched at the start of s.
ChunkHeaderAt(s) ==
  LET Range(at) ==
        IF at = Fail THEN [start |-> <<>>, count |-> OptionalCount(Fail)]
        ELSE [start |-> Take(at, DigitPrefixLen(at)),
              count |-> OptionalCount(Drop(at, DigitPrefixLen(at)))]
      CountOf(range) == IF range.count.digits = <<>> THEN 1 ELSE ParseInt(range.count.digits)
      Matched(old, new) ==
        IF Expect(new.count.rest, <<" ">> \o AtAt) = Fail THEN [matched |-> FALSE]
        ELSE [matched |-> TRUE,
              oldStart |-> ParseInt(old.start), oldLines |-> CountOf(old),
              newStart |-> ParseInt(new.start), newLines |-> CountOf(new)]
      WithOld(old) == Matched(old, Range(ExpectNumber(Expect(old.count.rest, <<" ">>), "+")))
  IN  WithOld(Range(ExpectNumber(Expect(s, AtAt \o <<" ">>), "-")))

\* The pattern is searched anywhere in the header line.  A line it is not
\* found in gives starts that are not numbers (nan) and counts of 1.
ChunkHeader(line) ==
  LET Found(m) == [nan |-> FALSE, oldStart |-> m.oldStart, oldLines |-> m.oldLines,
                   newStart |-> m.newStart, newLines |-> m.newLines]
      First(at) ==
        IF at = {} THEN [nan |-> TRUE, oldStart |-> 0, oldLines |-> 1,
                         newStart |-> 0, newLines |-> 1]
        ELSE Found(ChunkHeaderAt(Drop(line, CHOOSE k \in at : \A j \in at : k <= j)))
  IN  First({k \in 0..Len(line) : ChunkHeaderAt(Drop(line, k)).matched})

\* The operation of a hunk line: its first character; an empty line is a
\* context line unless it is the last line of the diff.
Undefined == "undefined"

OperationOf(diffstr, j) ==
  IF Len(diffstr[j]) = 0 THEN (IF j # Len(diffstr) THEN " " ELSE Undefined)
  ELSE diffstr[j][1]

\* The lines of a hunk: read while the header's counts are not reached.
RECURSIVE ScanHunk(_, _, _, _, _, _, _)
ScanHunk(diffstr, j, oldLines, newLines, removeCount, addCount, acc) ==
  IF j <= Len(diffstr)
     /\ (removeCount < oldLines \/ addCount < newLines \/ StartsWith(diffstr[j], <<"\\">>))
    THEN LET operation == OperationOf(diffstr, j)
         IN  IF operation \in {"+", "-", " ", "\\"}
               THEN ScanHunk(diffstr, j + 1, oldLines, newLines,
                             removeCount + (IF operation \in {"-", " "} THEN 1 ELSE 0),
                             addCount + (IF operation \in {"+", " "} THEN 1 ELSE 0),
                             Append(acc, diffstr[j]))
             ELSE [threw |-> TRUE, message |-> "Hunk contained invalid line"]
  ELSE [threw |-> FALSE, lines |-> acc, next |-> j,
        removeCount |-> removeCount, addCount |-> addCount]

\* parseHunk: the hunk whose header is line i of the diff.
ParseHunk(diffstr, i) ==
  LET Counted(h, scan, oldLines, newLines) ==
        IF scan.addCount # newLines
          THEN [threw |-> TRUE, message |-> "Added line count did not match"]
        ELSE IF scan.removeCount # oldLines
          THEN [threw |-> TRUE, message |-> "Removed line count did not match"]
        ELSE [threw |-> FALSE, next |-> scan.next,
              hunk |-> [nan |-> h.nan,
                        oldStart |-> h.oldStart + (IF h.oldLines = 0 THEN 1 ELSE 0),
                        oldLines |-> oldLines,
                        newStart |-> h.newStart + (IF h.newLines = 0 THEN 1 ELSE 0),
                        newLines |-> newLines,
                        lines |-> scan.lines]]
      Scanned(h, scan) ==
        IF scan.threw THEN scan
        ELSE Counted(h, scan,
                     IF scan.removeCount = 0 /\ h.oldLines = 1 THEN 0 ELSE h.oldLines,
                     IF scan.addCount = 0 /\ h.newLines = 1 THEN 0 ELSE h.newLines)
      WithHeader(h) == Scanned(h, ScanHunk(diffstr, i + 1, h.oldLines, h.newLines, 0, 0, <<>>))
  IN  WithHeader(ChunkHeader(diffstr[i]))

\* The hunks of one file, from line i on.
RECURSIVE ParseHunks(_, _, _)
ParseHunks(diffstr, i, hunks) ==
  LET Parsed(h) == IF h.threw THEN h ELSE ParseHunks(diffstr, h.next, Append(hunks, h.hunk))
  IN  IF i > Len(diffstr) \/ StartsNextIndex(diffstr[i])
        THEN [threw |-> FALSE, hunks |-> hunks, next |-> i]
      ELSE IF StartsWith(diffstr[i], AtAt) THEN Parsed(ParseHunk(diffstr, i))
      ELSE IF diffstr[i] # <<>> THEN [threw |-> TRUE, message |-> "Unknown line"]
      ELSE ParseHunks(diffstr, i + 1, hunks)

\* The first line at or after i that ends the metadata, or one past the end.
RECURSIVE SkipMetadata(_, _)
SkipMetadata(diffstr, i) ==
  IF i <= Len(diffstr) /\ ~EndsMetadata(diffstr[i]) THEN SkipMetadata(diffstr, i + 1) ELSE i

\* parseFileHeader: step over a file header line.
SkipFileHeader(diffstr, i) ==
  IF i <= Len(diffstr) /\ IsFileHeader(diffstr[i]) THEN i + 1 ELSE i

\* parsePatch: one entry per file of the diff.
RECURSIVE ParseIndexes(_, _, _)
ParseIndexes(diffstr, i, list) ==
  LET Parsed(parsed) ==
        IF parsed.threw THEN parsed
        ELSE ParseIndexes(diffstr, parsed.next, Append(list, [hunks |-> parsed.hunks]))
  IN  IF i > Len(diffstr) THEN [threw |-> FALSE, list |-> list]
      ELSE Parsed(ParseHunks(diffstr,
                             SkipFileHeader(diffstr,
                               SkipFileHeader(diffstr, SkipMetadata(diffstr, i))),
                             <<>>))

parsePatch(uniDiff) == ParseIndexes(Split(uniDiff, <<NL>>), 1, <<>>)


(***************************************************************************)
(* Hunk application.  Positions are 0-based indices into the lines of the  *)
(* source, as in the package; a position outside the array reads           *)
(* undefined, which equals no patch line.                                  *)
(***************************************************************************)
HasLine(lines, pos) == pos >= 0 /\ pos < Len(lines)

LineAt(lines, pos) == lines[pos + 1]

\* compareLine: the source line at pos is the content of the patch line.
compareLine(lines, pos, content) == HasLine(lines, pos) /\ LineAt(lines, pos) = content

\* lines[toPos] is truthy: a line that exists and is not empty.
IsTruthyLine(lines, pos) == HasLine(lines, pos) /\ LineAt(lines, pos) # <<>>

Null == [null |-> TRUE]

\* Left-to-right choice of the first alternative that is not null.
OrElse(a, b) == IF a # Null THEN a ELSE b

\* applyHunk: the hunk lines from index hunkLinesI (1-based here) applied at
\* toPos with at most maxErrors tolerated mismatches.  patchedLines holds
\* the lines produced so far; nConsecutive counts the trailing context
\* lines and mustMatch says the next context line may not be fuzzed.
RECURSIVE applyHunk(_, _, _, _, _, _, _, _, _)
applyHunk(lines, hunkLines, toPos, maxErrors, hunkLinesI, lastContextLineMatched, patchedLines, nConsecutive, mustMatch) ==
  IF hunkLinesI > Len(hunkLines)
    THEN [patchedLines |-> Take(patchedLines, Len(patchedLines) - nConsecutive),
          oldLineLastI |-> toPos - nConsecutive - 1]
  ELSE
    LET hunkLine == hunkLines[hunkLinesI]
        operation == IF Len(hunkLine) > 0 THEN hunkLine[1] ELSE " "
        content == IF Len(hunkLine) > 0 THEN Tail(hunkLine) ELSE hunkLine
    IN  IF operation = "-"
          THEN IF compareLine(lines, toPos, content)
                 THEN applyHunk(lines, hunkLines, toPos + 1, maxErrors, hunkLinesI + 1,
                                lastContextLineMatched, patchedLines, 0, mustMatch)
               ELSE IF maxErrors = 0 \/ ~HasLine(lines, toPos) THEN Null
               ELSE applyHunk(lines, hunkLines, toPos + 1, maxErrors - 1, hunkLinesI,
                              FALSE, Append(patchedLines, LineAt(lines, toPos)), 0, FALSE)
        ELSE IF operation = "+"
          THEN IF ~lastContextLineMatched THEN Null
               ELSE applyHunk(lines, hunkLines, toPos, maxErrors, hunkLinesI + 1,
                              lastContextLineMatched, Append(patchedLines, content), 0, TRUE)
        ELSE IF operation = " "
          THEN IF compareLine(lines, toPos, content)
                 THEN applyHunk(lines, hunkLines, toPos + 1, maxErrors, hunkLinesI + 1,
                                TRUE, Append(patchedLines, LineAt(lines, toPos)),
                                nConsecutive + 1, FALSE)
               ELSE IF mustMatch \/ maxErrors = 0 THEN Null
               ELSE OrElse(
                      IF IsTruthyLine(lines, toPos)
                        THEN OrElse(
                               applyHunk(lines, hunkLines, toPos + 1, maxErrors - 1,
                                         hunkLinesI + 1, FALSE,
                                         Append(patchedLines, LineAt(lines, toPos)), 0, FALSE),
                               applyHunk(lines, hunkLines, toPos + 1, maxErrors - 1,
                                         hunkLinesI, FALSE,
                                         Append(patchedLines, LineAt(lines, toPos)), 0, FALSE))
                      ELSE Null,
                      applyHunk(lines, hunkLines, toPos, maxErrors - 1, hunkLinesI + 1,
                                FALSE, patchedLines, 0, FALSE))
        ELSE applyHunk(lines, hunkLines, toPos, maxErrors, hunkLinesI + 1,
                       lastContextLineMatched, patchedLines, nConsecutive, mustMatch)

\* distanceIterator: the positions tried after the wanted one, alternately
\* after and before it at a growing distance, within minLine..maxLine.  it
\* is the iterator's state.
RECURSIVE distanceIterator(_, _, _, _)
distanceIterator(start, minLine, maxLine, it) ==
  LET forward == it.wantForward /\ ~it.forwardExhausted
      offset1 == IF forward /\ it.backwardExhausted THEN it.localOffset + 1
                 ELSE it.localOffset
      want1 == IF forward /\ ~it.backwardExhausted THEN FALSE ELSE it.wantForward
  IN  IF forward /\ start + offset1 <= maxLine
        THEN <<start + offset1>>
               \o distanceIterator(start, minLine, maxLine,
                                   [it EXCEPT !.localOffset = offset1, !.wantForward = want1])
      ELSE LET fwdExhausted == it.forwardExhausted \/ forward
           IN  IF ~it.backwardExhausted
                 THEN LET want2 == IF ~fwdExhausted THEN TRUE ELSE want1
                      IN  IF minLine <= start - offset1
                            THEN <<start - offset1>>
                                   \o distanceIterator(start, minLine, maxLine,
                                        [wantForward |-> want2, backwardExhausted |-> FALSE,
                                         forwardExhausted |-> fwdExhausted,
                                         localOffset |-> offset1 + 1])
                          ELSE distanceIterator(start, minLine, maxLine,
                                 [wantForward |-> want2, backwardExhausted |-> TRUE,
                                  forwardExhausted |-> fwdExhausted,
                                  localOffset |-> offset1])
               ELSE <<>>

IteratorStart ==
  [wantForward |-> TRUE, backwardExhausted |-> FALSE, forwardExhausted |-> FALSE,
   localOffset |-> 1]

\* The first position of the sequence at which the hunk applies with
\* maxErrors, with the result of applying it there.
RECURSIVE FirstFit(_, _, _, _)
FirstFit(lines, hunkLines, positions, maxErrors) ==
  IF positions = <<>> THEN Null
  ELSE LET r == applyHunk(lines, hunkLines, positions[1], maxErrors, 1, TRUE, <<>>, 0, FALSE)
       IN  IF r # Null THEN [toPos |-> positions[1], result |-> r]
           ELSE FirstFit(lines, hunkLines, Tail(positions), maxErrors)

\* The search of one hunk: fewest errors first, then nearest position.
RECURSIVE FitHunk(_, _, _, _, _)
FitHunk(lines, hunkLines, positions, maxErrors, fuzzFactor) ==
  IF maxErrors > fuzzFactor THEN Null
  ELSE OrElse(FirstFit(lines, hunkLines, positions, maxErrors),
              FitHunk(lines, hunkLines, positions, maxErrors + 1, fuzzFactor))

\* The source lines from..to-1 copied to the result; an index outside the
\* array copies undefined, which joins as an empty line.
CopyLines(lines, from, to) ==
  [k \in 1..(IF to > from THEN to - from ELSE 0) |->
     IF HasLine(lines, from + k - 1) THEN LineAt(lines, from + k - 1) ELSE <<>>]

\* The loop over the hunks.  st holds resultLines, minLine, prevHunkOffset
\* and nan: a start that is not a number makes every later position not a
\* number, where no source line is read or copied.
RECURSIVE ApplyHunks(_, _, _, _, _)
ApplyHunks(lines, hunks, i, fuzzFactor, st) ==
  LET Fitted(hunk, nan, fit) ==
        IF fit = Null THEN [applied |-> FALSE]
        ELSE ApplyHunks(lines, hunks, i + 1, fuzzFactor,
               [resultLines |-> st.resultLines
                  \o (IF nan THEN <<>> ELSE CopyLines(lines, st.minLine, fit.toPos))
                  \o fit.result.patchedLines,
                minLine |-> fit.result.oldLineLastI + 1,
                prevHunkOffset |-> fit.toPos + 1 - hunk.oldStart,
                nan |-> nan])
      Positions(nan, toPos, maxLine) ==
        IF nan THEN <<Len(lines)>>
        ELSE <<toPos>> \o distanceIterator(toPos, st.minLine, maxLine, IteratorStart)
      Hunk(hunk, nan) ==
        Fitted(hunk, nan,
               FitHunk(lines, hunk.lines,
                       Positions(nan, hunk.oldStart + st.prevHunkOffset - 1,
                                 Len(lines) - hunk.oldLines + fuzzFactor),
                       0, fuzzFactor))
  IN  IF i > Len(hunks)
        THEN [applied |-> TRUE,
              resultLines |-> st.resultLines
                \o (IF st.nan THEN <<>> ELSE CopyLines(lines, st.minLine, Len(lines)))]
      ELSE Hunk(hunks[i], st.nan \/ hunks[i].nan)

\* What the '\ No newline at end of file' markers of the last hunk ask for.
RemoveEOFNL(hunkLines) ==
  \E k \in 2..Len(hunkLines) :
    StartsWith(hunkLines[k], <<"\\">>) /\ StartsWith(hunkLines[k - 1], <<"+">>)

AddEOFNL(hunkLines) ==
  \E k \in 2..Len(hunkLines) :
    StartsWith(hunkLines[k], <<"\\">>) /\ StartsWith(hunkLines[k - 1], <<"-">>)

\* The source lines after the end-of-file newline was removed or added;
\* rejected when the marker contradicts the source and fuzzFactor is 0.
EOFNLLines(lines, hunkLines, fuzzFactor) ==
  LET lastEmpty == lines[Len(lines)] = <<>>
      Rejected == [rejected |-> TRUE]
      Kept(ls) == [rejected |-> FALSE, lines |-> ls]
  IN  IF RemoveEOFNL(hunkLines)
        THEN IF AddEOFNL(hunkLines)
               THEN (IF fuzzFactor = 0 /\ lastEmpty THEN Rejected ELSE Kept(lines))
             ELSE IF lastEmpty THEN Kept(Take(lines, Len(lines) - 1))
             ELSE IF fuzzFactor = 0 THEN Rejected
             ELSE Kept(lines)
      ELSE IF AddEOFNL(hunkLines)
        THEN IF ~lastEmpty THEN Kept(Append(lines, <<>>))
             ELSE IF fuzzFactor = 0 THEN Rejected
             ELSE Kept(lines)
      ELSE Kept(lines)

\* applyPatch(source, uniDiff, {fuzzFactor}): the patched text, false, or a
\* thrown Error.
applyPatch(source, uniDiff, fuzzFactor) ==
  LET Applied(r) ==
        IF r.applied THEN [kind |-> "string", value |-> Join(r.resultLines, <<NL>>)]
        ELSE [kind |-> "false"]
      Prepared(hunks, eofnl) ==
        IF eofnl.rejected THEN [kind |-> "false"]
        ELSE Applied(ApplyHunks(eofnl.lines, hunks, 1, fuzzFactor,
                                [resultLines |-> <<>>, minLine |-> 0,
                                 prevHunkOffset |-> 0, nan |-> FALSE]))
      Structured(hunks) ==
        IF Len(hunks) = 0 THEN [kind |-> "string", value |-> source]
        ELSE Prepared(hunks, EOFNLLines(Split(source, <<NL>>), hunks[Len(hunks)].lines,
                                        fuzzFactor))
      Parsed(patches) ==
        IF patches.threw THEN [kind |-> "throw", message |-> patches.message]
        ELSE IF Len(patches.list) > 1
          THEN [kind |-> "throw", message |-> "applyPatch only works with a single input."]
        ELSE IF fuzzFactor < 0
          THEN [kind |-> "throw", message |-> "fuzzFactor must be a non-negative integer"]
        ELSE Structured(patches.list[1].hunks)
  IN  Parsed(parsePatch(uniDiff))

(***************************************************************************)
(* applyPatchToScript                                                      *)
(***************************************************************************)
DefaultFuzzFactor == 2

\* const { fuzzFactor = 2 } = options
FuzzFactorOf(options) ==
  IF "fuzzFactor" \in DOMAIN options THEN options.fuzzFactor ELSE DefaultFuzzFactor

NoOptions == [none |-> TRUE]

\* A mutant: without the try/catch an exception of applyPatch leaves the
\* function.
applyPatchToScriptUncaught(script, patch, options) ==
  LET Returned(fixedPatch, result) ==
        IF result.kind = "throw"
          THEN [threw |-> TRUE, message |-> result.message]
        ELSE IF result.kind = "false"
          THEN [success |-> FALSE, error |-> "Patch failed to apply"]
        ELSE [success |-> TRUE, script |-> result.value, appliedPatch |-> fixedPatch]
      Fixed(fixedPatch) ==
        Returned(fixedPatch, applyPatch(script, fixedPatch, FuzzFactorOf(options)))
  IN  IF patch = <<>> \/ TrimIsEmpty(patch)
        THEN [success |-> FALSE, error |-> "Empty patch provided"]
      ELSE IF ~Includes(patch, AtAt)
        THEN [success |-> FALSE, error |-> "Invalid patch format"]
      ELSE Fixed(fixPatchHeaders(patch))

\* A mutant: the patch as submitted is reported as the applied patch.
applyPatchToScriptSubmitted(script, patch, options) ==
  LET Returned(fixedPatch, result) ==
        IF result.kind = "throw"
          THEN [success |-> FALSE, error |-> "Patch error: ", message |-> result.message]
        ELSE IF result.kind = "false"
          THEN [success |-> FALSE, error |-> "Patch failed to apply"]
        ELSE [success |-> TRUE, script |-> result.value, appliedPatch |-> patch]
      Fixed(fixedPatch) ==
        Returned(fixedPatch, applyPatch(script, fixedPatch, FuzzFactorOf(options)))
  IN  IF patch = <<>> \/ TrimIsEmpty(patch)
        THEN [success |-> FALSE, error |-> "Empty patch provided"]
      ELSE IF ~Includes(patch, AtAt)
        THEN [success |-> FALSE, error |-> "Invalid patch format"]
      ELSE Fixed(fixPatchHeaders(patch))

\* A mutant: the format check comes before the empty check.
applyPatchToScriptFormatFirst(script, patch, options) ==
  LET Returned(fixedPatch, result) ==
        IF result.kind = "throw"
          THEN [success |-> FALSE, error |-> "Patch error: ", message |-> result.message]
        ELSE IF result.kind = "false"
          THEN [success |-> FALSE, error |-> "Patch failed to apply"]
        ELSE [success |-> TRUE, script |-> result.value, appliedPatch |-> fixedPatch]
      Fixed(fixedPatch) ==
        Returned(fixedPatch, applyPatch(script, fixedPatch, FuzzFactorOf(options)))
  IN  IF ~Includes(patch, AtAt)
        THEN [success |-> FALSE, error |-> "Invalid patch format"]
      ELSE IF patch = <<>> \/ TrimIsEmpty(patch)
        THEN [success |-> FALSE, error |-> "Empty patch provided"]
      ELSE Fixed(fixPatchHeaders(patch))

applyPatchToScript(script, patch, options) ==
  LET Returned(fixedPatch, result) ==
        IF result.kind = "throw"
          THEN [success |-> FALSE, error |-> "Patch error: ", message |-> result.message]
        ELSE IF result.kind = "false"
          THEN [success |-> FALSE, error |-> "Patch failed to apply"]
        ELSE [success |-> TRUE, script |-> result.value, appliedPatch |-> fixedPatch]
      Fixed(fixedPatch) ==
        Returned(fixedPatch, applyPatch(script, fixedPatch, FuzzFactorOf(options)))
  IN  IF patch = <<>> \/ TrimIsEmpty(patch)
        THEN [success |-> FALSE, error |-> "Empty patch provided"]
      ELSE IF ~Includes(patch, AtAt)
        THEN [success |-> FALSE, error |-> "Invalid patch format"]
      ELSE Fixed(fixPatchHeaders(patch))

(***************************************************************************)
(* Calls of applyPatchToScript on documents and patches of a few lines,    *)
(* with and without a fuzzFactor option, each followed by the same call    *)
(* with fuzzFactor 0 for comparison.                                       *)
(***************************************************************************)
MaxDocLines == 2
MaxPatchLines == 3

DocLines == { <<"a">>, <<"b">>, <<>> }

\* The documents of 1..n lines, as sequences of lines.
DocumentLines(n) == SeqUpTo(DocLines, n) \ {<<>>}

PatchLines ==
  { HeaderWithCounts(<<"1">>, <<"1">>, <<"1">>, <<"1">>),
    HeaderNoCounts(<<"2">>, <<"2">>),
    <<" ", "a">>, <<"-", "b">>, <<"+", "c">>, <<>> }

PatchOptions == { NoOptions, [fuzzFactor |-> 1] }

PatchedLines == { <<"a">>, <<"b">> }

InitPatch ==
  /\ pc = "call"
  /\ \E script \in SeqUpTo(PatchedLines, MaxDocLines) \ {<<>>},
        ls \in SeqUpTo(PatchLines, MaxPatchLines), options \in PatchOptions :
       args = [script |-> Join(script, <<NL>>), patch |-> Join(ls, <<NL>>), options |-> options]
  /\ ret = [none |-> TRUE]
  /\ ClientIdle

CallApplyPatch ==
  /\ pc = "call"
  /\ ret' = [result |-> applyPatchToScript(args.script, args.patch, args.options)]
  /\ pc' = "done"
  /\ UNCHANGED <<args, hise, scriptCache>>

CallApplyPatchStrict ==
  /\ pc = "done"
  /\ ret' = [result |-> ret.result,
             strict |-> applyPatchToScript(args.script, args.patch, [fuzzFactor |-> 0])]
  /\ pc' = "compared"
  /\ UNCHANGED <<args, hise, scriptCache>>

NextPatch == CallApplyPatch \/ CallApplyPatchStrict

SpecPatch == InitPatch /\ [][NextPatch]_vars

\* C4: when no fuzz value is given applyPatchToScript uses fuzz 0: the
\* result of the call without a fuzz option equals the result of the call
\* with fuzzFactor 0, for every document and patch.
DefaultFuzzIsZero ==
  (pc = "compared" /\ args.options = NoOptions) => ret.result = ret.strict

\* The patch of the call is made of white space only (the empty patch
\* included); it holds two at signs in a row.
WhitespaceOnly == \A k \in 1..Len(args.patch) : args.patch[k] \in {" ", NL, "\t", "\r"}

HasMarker == \E k \in 1..(Len(args.patch) - 1) : args.patch[k] = "@" /\ args.patch[k + 1] = "@"

\* C15: applyPatchToScript rejects up front: an empty or white-space-only
\* patch gives exactly the 'Empty patch provided' failure, any other patch
\* without an '@@' marker gives exactly the 'Invalid patch format' failure
\* (no script, no applied patch, whatever the fuzz factor), the empty check
\* comes first, and no other patch gets either of the two failures.
RejectsUpFront ==
  pc = "done" =>
    /\ WhitespaceOnly => ret.result = [success |-> FALSE, error |-> "Empty patch provided"]
    /\ (~WhitespaceOnly /\ ~HasMarker) =>
         ret.result = [success |-> FALSE, error |-> "Invalid patch format"]
    /\ (~WhitespaceOnly /\ HasMarker) =>
         (ret.result.success \/
            ret.result.error \notin {"Empty patch provided", "Invalid patch format"})

RejectsUpFrontWitness ==
  /\ pc = "done"
  /\ args.patch = <<NL>>
  /\ args.options = [fuzzFactor |-> 1]
  /\ ret.result = [success |-> FALSE, error |-> "Empty patch provided"]

\* What the apply algorithm answers for the normalized patch of the call.
AppliedNormalized ==
  applyPatch(args.script, fixPatchHeaders(args.patch), FuzzFactorOf(args.options))

\* C16: applyPatchToScript never throws: for every document, patch and
\* fuzz factor it returns a result with a boolean success, and whenever the
\* apply algorithm throws on the normalized patch the result is the
\* failure 'Patch error: ' followed by the message of the exception.
NeverThrows ==
  LET Caught(applied) ==
        applied.kind = "throw" =>
          ret.result = [success |-> FALSE, error |-> "Patch error: ",
                        message |-> applied.message]
  IN  pc = "done" =>
        /\ "success" \in DOMAIN ret.result
        /\ ret.result.success \in BOOLEAN
        /\ "threw" \notin DOMAIN ret.result
        /\ (~WhitespaceOnly /\ HasMarker) => Caught(AppliedNormalized)

NeverThrowsWitness ==
  /\ pc = "done"
  /\ ~ret.result.success
  /\ ret.result.error = "Patch error: "
  /\ AppliedNormalized.kind = "throw"
  /\ ret.result.message = AppliedNormalized.message

\* C17: every PatchResult is a tagged outcome: with success true it holds
\* the script produced by applying the normalized patch and, as
\* appliedPatch, fixPatchHeaders of the submitted patch, and no error; with
\* success false it holds an error and neither script nor appliedPatch.
TaggedOutcome ==
  LET Produced(applied) ==
        applied.kind = "string" /\ ret.result.script = applied.value
  IN  pc = "done" =>
        IF ret.result.success
          THEN /\ DOMAIN ret.result = {"success", "script", "appliedPatch"}
               /\ ret.result.appliedPatch = fixPatchHeaders(args.patch)
               /\ Produced(AppliedNormalized)
        ELSE /\ "error" \in DOMAIN ret.result
             /\ ret.result.error \in {"Empty patch provided", "Invalid patch format",
                                      "Patch failed to apply", "Patch error: "}
             /\ DOMAIN ret.result \cap {"script", "appliedPatch"} = {}

TaggedOutcomeWitness ==
  /\ pc = "done"
  /\ ret.result.success
  /\ ret.result.appliedPatch # args.patch
  /\ ret.result.script # args.script

(***************************************************************************)
(* Round trip: a unified diff from document A to document B, written as    *)
(* the patches of the tests are (one hunk, the changed lines between the   *)
(* common head and tail of A and B, with up to MaxContext context lines),  *)
(* its header counts kept, replaced by wrong numbers or omitted, with or   *)
(* without the newline that ends the last line of a diff file.             *)
(***************************************************************************)
MaxContext == 1

Min(a, b) == IF a < b THEN a ELSE b

\* The number of leading lines A and B share.
CommonPrefix(A, B) ==
  LET S == { k \in 0..Min(Len(A), Len(B)) : \A j \in 1..k : A[j] = B[j] }
  IN  CHOOSE k \in S : \A j \in S : j <= k

\* The number of trailing lines A and B share after their common head.
CommonSuffix(A, B) ==
  LET p == CommonPrefix(A, B)
      S == { k \in 0..(Min(Len(A), Len(B)) - p) :
               \A j \in 0..(k - 1) : A[Len(A) - j] = B[Len(B) - j] }
  IN  CHOOSE k \in S : \A j \in S : j <= k

Prefixed(c, ls) == [k \in 1..Len(ls) |-> <<c>> \o ls[k]]

HeaderStyles == { "exact", "wrong", "omitted" }

WrongCount == <<"9">>

\* The hunk header of the style: start lines are those of the diff, and
\* the start of an empty range is the line before it.
DiffHeader(oldStart, oldCount, newStart, newCount, style) ==
  LET os == NumberToString(IF oldCount = 0 THEN oldStart - 1 ELSE oldStart)
      ns == NumberToString(IF newCount = 0 THEN newStart - 1 ELSE newStart)
  IN  IF style = "exact"
        THEN HeaderWithCounts(os, NumberToString(oldCount), ns, NumberToString(newCount))
      ELSE IF style = "wrong" THEN HeaderWithCounts(os, WrongCount, ns, WrongCount)
      ELSE HeaderNoCounts(os, ns)

\* The lines of the diff from A to B (sequences of lines); no line when A
\* and B are equal.
UnifiedDiff(A, B, context, style) ==
  LET p == CommonPrefix(A, B)
      s == CommonSuffix(A, B)
      pre == Min(context, p)
      post == Min(context, s)
      removed == SubSeq(A, p + 1, Len(A) - s)
      added == SubSeq(B, p + 1, Len(B) - s)
  IN  IF A = B THEN <<>>
      ELSE <<DiffHeader(p - pre + 1, pre + Len(removed) + post,
                        p - pre + 1, pre + Len(added) + post, style)>>
             \o Prefixed(" ", SubSeq(A, p - pre + 1, p))
             \o Prefixed("-", removed)
             \o Prefixed("+", added)
             \o Prefixed(" ", SubSeq(A, Len(A) - s + 1, Len(A) - s + post))

InitRoundTrip ==
  /\ pc = "call"
  /\ \E A \in DocumentLines(MaxDocLines), B \in DocumentLines(MaxDocLines),
        context \in 0..MaxContext, style \in HeaderStyles, finalNewline \in BOOLEAN :
       args = [script |-> Join(A, <<NL>>), target |-> Join(B, <<NL>>),
               patch |-> Join(UnifiedDiff(A, B, context, style)
                                \o (IF finalNewline /\ A # B THEN <<<<>>>> ELSE <<>>),
                              <<NL>>),
               finalNewline |-> finalNewline]
  /\ ret = [none |-> TRUE]
  /\ ClientIdle

ApplyRoundTrip ==
  /\ pc = "call"
  /\ ret' = [result |-> applyPatchToScript(args.script, args.patch, NoOptions)]
  /\ pc' = "done"
  /\ UNCHANGED <<args, hise, scriptCache>>

NextRoundTrip == ApplyRoundTrip

SpecRoundTrip == InitRoundTrip /\ [][NextRoundTrip]_vars

\* C1: round trip: for any documents A and B and any correct unified diff
\* from A to B whose header counts were replaced by wrong numbers or
\* omitted, applyPatchToScript(A, diff) succeeds and returns B.
RoundTrip ==
  pc = "done" => (ret.result.success /\ ret.result.script = args.target)

(***************************************************************************)
(* HiseClient.editScript.  hise is the store behind the REST API: the      *)
(* script of the addressed processor and the numbers of read and write     *)
(* requests sent to it.  scriptCache is the client's Map from cache key to entry (the *)
(* time of an entry is a reading of a clock that does not run backwards,   *)
(* its digest a stand-in for SHA-256).  The handler is cut                 *)
(* at its two awaits: the call up to the get_script request, the response  *)
(* up to the set_script request, and the response of the write.  The error *)
(* excerpts added to a response read the store with a line range, which    *)
(* neither caches nor writes, and are left out.                            *)
(***************************************************************************)
ModuleId == <<"M">>

\* callback ? `${moduleId}:${callback}` : moduleId
getScriptCacheKey(params) ==
  IF "callback" \in DOMAIN params /\ params.callback # <<>>
    THEN params.moduleId \o <<":">> \o params.callback
  ELSE params.moduleId

\* The code unit of a character the model draws.
CharCode(c) ==
  CASE c = NL -> 10
    [] c = " " -> 32
    [] c = ":" -> 58
    [] c \in {"a", "b", "c", "d"} -> 96 + (CHOOSE n \in 1..4 : <<"a", "b", "c", "d">>[n] = c)
    [] OTHER -> 63

HashLength == 16

HexDigits == Digits \o <<"a", "b", "c", "d", "e", "f">>

\* createHash('sha256').update(script).digest('hex').slice(0, 16).  SHA-256
\* is not computed: the digest is a checksum of the code units that keeps
\* what the client relies on, a string of 16 hexadecimal digits that is a
\* function of the script and changes with it.
computeScriptHash(script) ==
  LET RECURSIVE Sum(_, _)
      Sum(i, k) == IF i > Len(script) THEN k % Len(HexDigits)
                   ELSE (CharCode(script[i]) * (i + k) + Sum(i + 1, k)) % Len(HexDigits)
  IN  [k \in 1..HashLength |-> HexDigits[Sum(1, k) + 1]]

\* A mutant: an entry that exists is updated in part, its script and time
\* replaced and its lines and digest kept.
cacheScriptStaleLines(cache, params, script, now) ==
  LET key == getScriptCacheKey(params)
  IN  [k \in DOMAIN cache \cup {key} |->
         IF k = key
           THEN [script |-> script,
                 lines |-> IF key \in DOMAIN cache THEN cache[key].lines
                           ELSE Split(script, <<NL>>),
                 timestamp |-> now,
                 hash |-> IF key \in DOMAIN cache THEN cache[key].hash
                          ELSE computeScriptHash(script)]
         ELSE cache[k]]

\* scriptCache.set(key, {script, lines, timestamp, hash}) with now = Date.now()
cacheScript(cache, params, script, now) ==
  LET key == getScriptCacheKey(params)
  IN  [k \in DOMAIN cache \cup {key} |->
         IF k = key
           THEN [script |-> script, lines |-> Split(script, <<NL>>), timestamp |-> now,
                 hash |-> computeScriptHash(script)]
         ELSE cache[k]]

EmptyCache == [k \in {} |-> [script |-> <<>>, lines |-> <<>>, timestamp |-> 0, hash |-> <<>>]]

\* The readings Date.now() can give: none earlier than a time in the cache.
MaxTime == 1

Times(cache) == { t \in 0..MaxTime : \A k \in DOMAIN cache : cache[k].timestamp <= t }

\* [...deleteLines].sort((a, b) => b - a)
RECURSIVE SortDescending(_)
SortDescending(s) ==
  IF s = <<>> THEN <<>>
  ELSE LET rest == SortDescending(Tail(s))
           before == SelectSeq(rest, LAMBDA x : x >= Head(s))
           after == SelectSeq(rest, LAMBDA x : x < Head(s))
       IN  before \o <<Head(s)>> \o after

\* lines.splice(start, deleteCount, ...items) with a 0-based start
Splice(lines, start, deleteCount, items) ==
  Take(lines, start) \o items \o Drop(lines, start + deleteCount)

RangeError(msg, line, from, to) ==
  [threw |-> TRUE, error |-> [msg |-> msg, L |-> line, F |-> from, T |-> to]]

Computed(lines) == [threw |-> FALSE, lines |-> lines]

\* for (const edit of edits): bounds check, then lines[edit.line - 1] = edit.content
RECURSIVE EditsOp(_, _)
EditsOp(lines, edits) ==
  IF edits = <<>> THEN Computed(lines)
  ELSE LET edit == Head(edits)
       IN  IF edit.line < 1 \/ edit.line > Len(lines)
             THEN RangeError("Line out of range", edit.line, 1, Len(lines))
           ELSE EditsOp([lines EXCEPT ![edit.line] = edit.content], Tail(edits))

\* A mutant: the splice removes one line fewer than the range holds.
ReplaceRangeOpShort(lines, replaceRange) ==
  LET startLine == replaceRange.startLine
      endLine == replaceRange.endLine
  IN  IF startLine < 1 \/ endLine < startLine \/ endLine > Len(lines)
        THEN [threw |-> TRUE,
              error |-> [msg |-> "Invalid range", S |-> startLine, E |-> endLine,
                         F |-> 1, T |-> Len(lines)]]
      ELSE Computed(Splice(lines, startLine - 1, endLine - startLine,
                           Split(replaceRange.content, <<NL>>)))

ReplaceRangeOp(lines, replaceRange) ==
  LET startLine == replaceRange.startLine
      endLine == replaceRange.endLine
  IN  IF startLine < 1 \/ endLine < startLine \/ endLine > Len(lines)
        THEN [threw |-> TRUE,
              error |-> [msg |-> "Invalid range", S |-> startLine, E |-> endLine,
                         F |-> 1, T |-> Len(lines)]]
      ELSE Computed(Splice(lines, startLine - 1, endLine - startLine + 1,
                           Split(replaceRange.content, <<NL>>)))

\* A mutant: the content is inserted before the line instead of after it.
InsertAfterOpBefore(lines, insertAfter) ==
  IF insertAfter.line < 0 \/ insertAfter.line > Len(lines)
    THEN RangeError("Line out of range for insert", insertAfter.line, 0, Len(lines))
  ELSE Computed(Splice(lines, IF insertAfter.line > 0 THEN insertAfter.line - 1 ELSE 0, 0,
                       Split(insertAfter.content, <<NL>>)))

InsertAfterOp(lines, insertAfter) ==
  IF insertAfter.line < 0 \/ insertAfter.line > Len(lines)
    THEN RangeError("Line out of range for insert", insertAfter.line, 0, Len(lines))
  ELSE Computed(Splice(lines, insertAfter.line, 0, Split(insertAfter.content, <<NL>>)))

\* for (const line of toDelete): bounds check against the lines that are
\* left, then lines.splice(line - 1, 1)
RECURSIVE DeleteLoop(_, _)
DeleteLoop(lines, toDelete) ==
  IF toDelete = <<>> THEN Computed(lines)
  ELSE LET line == Head(toDelete)
       IN  IF line < 1 \/ line > Len(lines)
             THEN RangeError("Line out of range for delete", line, 1, Len(lines))
           ELSE DeleteLoop(Splice(lines, line - 1, 1, <<>>), Tail(toDelete))

DeleteLinesOp(lines, deleteLines) == DeleteLoop(lines, SortDescending(deleteLines))

OperationKinds == {"edits", "replaceRange", "insertAfter", "deleteLines"}

\* A mutant: of several kinds only the first in the order of the if chain
\* is counted.
operationsFirst(params) ==
  IF "edits" \in DOMAIN params THEN {"edits"}
  ELSE IF "replaceRange" \in DOMAIN params THEN {"replaceRange"}
  ELSE IF "insertAfter" \in DOMAIN params THEN {"insertAfter"}
  ELSE IF "deleteLines" \in DOMAIN params THEN {"deleteLines"}
  ELSE {}

\* [edits, replaceRange, insertAfter, deleteLines].filter(Boolean): an
\* array or an object that is given counts, an empty array included.
operations(params) == OperationKinds \cap DOMAIN params

\* A mutant: an operation that is out of range leaves the lines as they are.
ApplyOperationLenient(lines, params) ==
  IF "edits" \in DOMAIN params /\ ~EditsOp(lines, params.edits).threw
    THEN EditsOp(lines, params.edits)
  ELSE IF "deleteLines" \in DOMAIN params /\ ~DeleteLinesOp(lines, params.deleteLines).threw
    THEN DeleteLinesOp(lines, params.deleteLines)
  ELSE Computed(lines)

\* if (edits) ... else if (replaceRange) ... else if (insertAfter) ... else if (deleteLines)
ApplyOperation(lines, params) ==
  IF "edits" \in DOMAIN params THEN EditsOp(lines, params.edits)
  ELSE IF "replaceRange" \in DOMAIN params THEN ReplaceRangeOp(lines, params.replaceRange)
  ELSE IF "insertAfter" \in DOMAIN params THEN InsertAfterOp(lines, params.insertAfter)
  ELSE IF "deleteLines" \in DOMAIN params THEN DeleteLinesOp(lines, params.deleteLines)
  ELSE Computed(lines)

\* The calls: one operation kind with small arguments, no kind, or two.
MaxDeletes == 2
MaxEdits == 1

EditLineNumbers == (0 - 1)..(MaxDocLines + 1)

EditContents == { <<"c">>, <<"c", NL, "d">> }

LineEdits == [line : EditLineNumbers, content : EditContents]

EditOperations ==
  { [deleteLines |-> d] : d \in SeqUpTo(EditLineNumbers, MaxDeletes) }
    \cup { [edits |-> es] : es \in SeqUpTo(LineEdits, MaxEdits) }
    \cup { [replaceRange |-> r] :
             r \in [startLine : EditLineNumbers, endLine : EditLineNumbers,
                    content : EditContents] }
    \cup { [insertAfter |-> i] : i \in [line : EditLineNumbers, content : EditContents] }
    \cup { [none |-> TRUE],
           [edits |-> <<>>, deleteLines |-> <<>>],
           [insertAfter |-> [line |-> 0, content |-> <<"c">>], deleteLines |-> <<1>>] }

EditTargets == { [moduleId |-> ModuleId], [moduleId |-> ModuleId, callback |-> <<"c">>] }

InitEditScript ==
  /\ pc = "call"
  /\ \E target \in EditTargets, op \in EditOperations : args = [params |-> target @@ op]
  /\ ret = [none |-> TRUE]
  /\ \E ls \in SeqUpTo(PatchedLines, MaxDocLines) :
       hise = [script |-> Join(ls, <<NL>>), reads |-> 0, writes |-> 0]
  /\ scriptCache = EmptyCache

\* editScript up to its first await: the count of operation kinds is
\* validated, then get_script is requested.
EditScriptCall ==
  /\ pc = "call"
  /\ IF operations(args.params) = {}
       THEN /\ pc' = "threw"
            /\ ret' = [threw |-> TRUE, error |-> [msg |-> "At least one operation required"]]
            /\ hise' = hise
     ELSE IF Cardinality(operations(args.params)) > 1
       THEN /\ pc' = "threw"
            /\ ret' = [threw |-> TRUE, error |-> [msg |-> "Only one operation allowed per call"]]
            /\ hise' = hise
     ELSE /\ pc' = "getScript"
          /\ ret' = ret
          /\ hise' = [hise EXCEPT !.reads = @ + 1]
  /\ UNCHANGED <<args, scriptCache>>

\* What get_script answers: the script of the store, a failure, or no
\* answer (the request throws).
GetScriptResponses ==
  { [threw |-> FALSE, success |-> TRUE, script |-> hise.script],
    [threw |-> FALSE, success |-> FALSE, script |-> <<>>],
    [threw |-> TRUE, success |-> FALSE, script |-> <<>>] }

\* getScript returns: a fetched non-empty script is cached; editScript
\* takes the cached lines, applies the operation and requests set_script
\* with the joined lines.
EditScriptFetched ==
  /\ pc = "getScript"
  /\ \E scriptResult \in GetScriptResponses, now \in Times(scriptCache) :
       IF scriptResult.threw
         THEN /\ pc' = "threw"
              /\ ret' = [threw |-> TRUE, error |-> [msg |-> "HISE API error"]]
              /\ scriptCache' = scriptCache
       ELSE IF ~scriptResult.success \/ scriptResult.script = <<>>
         THEN /\ pc' = "threw"
              /\ ret' = [threw |-> TRUE, error |-> [msg |-> "Failed to get script"]]
              /\ scriptCache' = scriptCache
       ELSE LET cache == cacheScript(scriptCache, args.params, scriptResult.script, now)
                cached == cache[getScriptCacheKey(args.params)]
                computed == ApplyOperation(cached.lines, args.params)
            IN  /\ scriptCache' = cache
                /\ IF computed.threw
                     THEN /\ pc' = "threw"
                          /\ ret' = computed
                   ELSE /\ pc' = "setScript"
                        /\ ret' = [newScript |-> Join(computed.lines, <<NL>>)]
  /\ UNCHANGED <<args, hise>>

\* set_script answers: the store took the script and compiled it, or it
\* reports errors (having taken the script or not), or the request throws.
\* The cache takes the new script whenever setScript returns.
EditScriptWritten ==
  /\ pc = "setScript"
  /\ \E threw \in BOOLEAN, success \in BOOLEAN, stored \in BOOLEAN, now \in Times(scriptCache) :
       /\ threw => ~success /\ ~stored
       /\ success => stored
       /\ hise' = [hise EXCEPT !.script = IF stored THEN ret.newScript ELSE @,
                                !.writes = @ + 1]
       /\ IF threw
            THEN /\ pc' = "threw"
                 /\ ret' = [threw |-> TRUE, error |-> [msg |-> "HISE API error"]]
                 /\ scriptCache' = scriptCache
          ELSE /\ pc' = "done"
               /\ ret' = [threw |-> FALSE, value |-> [success |-> success],
                          newScript |-> ret.newScript]
               /\ scriptCache' = cacheScript(scriptCache, args.params, ret.newScript, now)
  /\ UNCHANGED args

NextEditScript == EditScriptCall \/ EditScriptFetched \/ EditScriptWritten

SpecEditScript == InitEditScript /\ [][NextEditScript]_vars

\* The lines of a document without those at the positions of a set.
RECURSIVE WithoutLines(_, _, _)
WithoutLines(lines, positions, k) ==
  IF k > Len(lines) THEN <<>>
  ELSE (IF k \in positions THEN <<>> ELSE <<lines[k]>>) \o WithoutLines(lines, positions, k + 1)

SeqRange(s) == { s[k] : k \in 1..Len(s) }

\* C10: for any requested collection of in-range line numbers, deleteLines
\* produces the fetched lines with exactly the lines at those positions
\* removed and the remaining lines in their order: the operation does not
\* fail, and the script sent to the store is that one.
DeleteLinesExact ==
  LET fetched == Split(hise.script, <<NL>>)
      requested == SeqRange(args.params.deleteLines)
  IN  (/\ operations(args.params) = {"deleteLines"}
       /\ requested \subseteq 1..Len(fetched))
        => /\ pc = "setScript" =>
                ret.newScript = Join(WithoutLines(fetched, requested, 1), <<NL>>)
           /\ pc = "threw" => ret.error.msg # "Line out of range for delete"

\* The lines of the script as fetched, while the store still holds it.
FetchedLines == Split(hise.script, <<NL>>)

\* C11: replace range: with 1 <= startLine <= endLine <= lineCount the
\* script sent to the store is lines[1..startLine-1], then the lines of
\* content, then lines[endLine+1..lineCount], and has lineCount minus the
\* length of the range plus the number of content lines lines; the range
\* is not rejected.
ReplaceRangeSplices ==
  LET r == args.params.replaceRange
      contentLines == Split(r.content, <<NL>>)
      result == Split(ret.newScript, <<NL>>)
  IN  (/\ operations(args.params) = {"replaceRange"}
       /\ 1 <= r.startLine /\ r.startLine <= r.endLine /\ r.endLine <= Len(FetchedLines))
        => /\ pc = "threw" => ret.error.msg # "Invalid range"
           /\ pc = "setScript" =>
                /\ result = SubSeq(FetchedLines, 1, r.startLine - 1) \o contentLines
                              \o SubSeq(FetchedLines, r.endLine + 1, Len(FetchedLines))
                /\ Len(result) = Len(FetchedLines) - (r.endLine - r.startLine + 1)
                                   + Len(contentLines)

\* The last line of two is replaced by two lines.
ReplaceRangeSplicesWitness ==
  /\ pc = "setScript"
  /\ operations(args.params) = {"replaceRange"}
  /\ args.params.replaceRange.startLine = 2
  /\ args.params.replaceRange.endLine = 2
  /\ Len(FetchedLines) = 2
  /\ Len(Split(ret.newScript, <<NL>>)) = 3

\* C12: insert after: with 0 <= line <= lineCount the script sent to the
\* store is lines[1..line], then the lines of content, then
\* lines[line+1..lineCount]; line 0 puts the content first, line lineCount
\* puts it last, and the original lines are all kept in their order.
InsertAfterSplices ==
  LET i == args.params.insertAfter
      contentLines == Split(i.content, <<NL>>)
      result == Split(ret.newScript, <<NL>>)
      n == Len(contentLines)
  IN  (/\ operations(args.params) = {"insertAfter"}
       /\ 0 <= i.line /\ i.line <= Len(FetchedLines))
        => /\ pc = "threw" => ret.error.msg # "Line out of range for insert"
           /\ pc = "setScript" =>
                /\ result = SubSeq(FetchedLines, 1, i.line) \o contentLines
                              \o SubSeq(FetchedLines, i.line + 1, Len(FetchedLines))
                /\ i.line = 0 => SubSeq(result, 1, n) = contentLines
                /\ i.line = Len(FetchedLines) =>
                     SubSeq(result, Len(result) - n + 1, Len(result)) = contentLines
                /\ SubSeq(result, 1, i.line) \o SubSeq(result, i.line + n + 1, Len(result))
                     = FetchedLines

\* Two lines are inserted between the two lines of a script.
InsertAfterSplicesWitness ==
  /\ pc = "setScript"
  /\ operations(args.params) = {"insertAfter"}
  /\ args.params.insertAfter.line = 1
  /\ Len(FetchedLines) = 2
  /\ Len(Split(ret.newScript, <<NL>>)) = 4

\* The line numbers of a call are all in range for a script of n lines.
InRange(params, n) ==
  IF "edits" \in DOMAIN params
    THEN \A k \in 1..Len(params.edits) : 1 <= params.edits[k].line /\ params.edits[k].line <= n
  ELSE IF "replaceRange" \in DOMAIN params
    THEN /\ 1 <= params.replaceRange.startLine
         /\ params.replaceRange.startLine <= params.replaceRange.endLine
         /\ params.replaceRange.endLine <= n
  ELSE IF "insertAfter" \in DOMAIN params
    THEN 0 <= params.insertAfter.line /\ params.insertAfter.line <= n
  ELSE \A k \in 1..Len(params.deleteLines) :
         1 <= params.deleteLines[k] /\ params.deleteLines[k] <= n

RangeMessages ==
  { "Line out of range", "Invalid range", "Line out of range for insert",
    "Line out of range for delete" }

\* C13: bounds exhaustiveness: a line operation of editScript on a fetched
\* script is rejected as out of range exactly when one of its line numbers
\* is out of range for the line count of the script as fetched, and it is
\* carried out (the new script is handed to setScript) exactly when they
\* are all in range.
BoundsExhaustive ==
  (/\ Cardinality(operations(args.params)) = 1
   /\ \/ pc = "setScript"
      \/ pc = "threw" /\ ret.error.msg \in RangeMessages)
    => (pc = "setScript" <=> InRange(args.params, Len(FetchedLines)))

\* The kinds of line operation a call supplies.
KindsSupplied == { kind \in {"edits", "replaceRange", "insertAfter", "deleteLines"} :
                     kind \in DOMAIN args.params }

\* C14: exactly one of the four kinds of line operation may be requested
\* per editScript call: a call with no kind or with more than one kind
\* fails with the validation error of its case, no read or write request
\* has been sent to the store and the cache is unchanged; a call with one
\* kind never fails validation.
ExactlyOneKind ==
  /\ Cardinality(KindsSupplied) # 1 =>
       /\ pc \in {"call", "threw"}
       /\ pc = "threw" =>
            ret.error.msg = (IF KindsSupplied = {} THEN "At least one operation required"
                             ELSE "Only one operation allowed per call")
       /\ hise.reads = 0
       /\ hise.writes = 0
       /\ scriptCache = EmptyCache
  /\ (Cardinality(KindsSupplied) = 1 /\ pc = "threw") =>
       ret.error.msg \notin {"At least one operation required",
                             "Only one operation allowed per call"}

ExactlyOneKindWitness ==
  /\ pc = "threw"
  /\ KindsSupplied = {"insertAfter", "deleteLines"}
  /\ ret.error.msg = "Only one operation allowed per call"
  /\ hise.reads = 0

\* C19: cache lifecycle: a cache entry is created or overwritten only by a
\* successful fetch or a successful mutation: a step that changes the cache
\* is the return of a get_script that succeeded or the return of a
\* set_script that the store reports as successful, so an edit whose write
\* is reported as unsuccessful leaves the cache as it was.
CacheLifecycle ==
  [][scriptCache' # scriptCache =>
       \/ pc = "getScript" /\ pc' \in {"setScript", "threw"}
       \/ pc = "setScript" /\ pc' = "done" /\ ret'.value.success]_vars

\* A cache entry is whole: its four fields are present, its lines joined by
\* newlines give its script and none of them holds a newline, and its
\* digest is that of its script.
WholeEntry(entry) ==
  /\ DOMAIN entry = {"script", "lines", "timestamp", "hash"}
  /\ Join(entry.lines, <<NL>>) = entry.script
  /\ Len(entry.lines) >= 1
  /\ \A i \in 1..Len(entry.lines) : ~Includes(entry.lines[i], <<NL>>)
  /\ entry.hash = computeScriptHash(entry.script)
  /\ Len(entry.hash) = HashLength
  /\ entry.timestamp \in 0..MaxTime

\* C20: cache entry invariant: in every reachable state every cache entry
\* has lines = script split on newline and hash = the short digest of
\* script, with content, lines, hash and timestamp present together; and
\* while an edit has computed its new lines and the write is pending (or
\* the operation was rejected), the entry still holds the lines as fetched.
CacheEntryInvariant ==
  /\ \A key \in DOMAIN scriptCache : WholeEntry(scriptCache[key])
  /\ (pc = "setScript" \/ (pc = "threw" /\ hise.writes = 0 /\ scriptCache # EmptyCache)) =>
       /\ DOMAIN scriptCache = {getScriptCacheKey(args.params)}
       /\ scriptCache[getScriptCacheKey(args.params)].script = hise.script
       /\ scriptCache[getScriptCacheKey(args.params)].lines = FetchedLines

CacheEntryInvariantWitness ==
  /\ pc = "done"
  /\ DOMAIN scriptCache = {ModuleId \o <<":", "c">>}
  /\ scriptCache[ModuleId \o <<":", "c">>].script = ret.newScript
  /\ scriptCache[ModuleId \o <<":", "c">>].lines = <<<<"a">>, <<"c">>, <<"d">>>>
  /\ scriptCache[ModuleId \o <<":", "c">>].timestamp = 1
  /\ hise.script = <<"a", NL, "b">>

\* C25: edit call ordering: validation first, then the new document is
\* computed, then the cache is updated with the new text, and only then is
\* the new text handed to the store: while the write request is pending
\* the cache entry of the document already holds the new text, and no
\* write is sent by a call that failed validation.
EditOrdering ==
  /\ pc = "setScript" =>
       /\ getScriptCacheKey(args.params) \in DOMAIN scriptCache
       /\ scriptCache[getScriptCacheKey(args.params)].script = ret.newScript
  /\ hise.writes > 0 => Cardinality(KindsSupplied) = 1

\* C26: expected failures are values, not exceptions: an out-of-range line
\* number of a line operation and a wrong number of operation kinds are
\* reported by editScript as a failure value; when the call throws, the
\* cause is none of these (it is the store that failed).
ExpectedFailuresAreValues ==
  pc = "threw" =>
    ret.error.msg \notin
      RangeMessages \cup {"At least one operation required",
                          "Only one operation allowed per call"}

(***************************************************************************)
(* The script cache on its own: entries are put by getScript when a full   *)
(* script comes back, looked up by getCachedScript and removed by          *)
(* invalidateScriptCache.  Module ids and callback names are strings, some *)
(* of them holding the ':' that separates the two in a key.  The cache     *)
(* starts with the entries earlier fetches left; pc counts the operations  *)
(* carried out since, ret.before is the cache before the last one.         *)
(***************************************************************************)
\* this.scriptCache.get(key) || null
getCachedScript(cache, params) ==
  IF getScriptCacheKey(params) \in DOMAIN cache THEN cache[getScriptCacheKey(params)]
  ELSE Null

\* A mutant: every key that starts with the id is deleted, with or without
\* the ':' after it.
invalidateScriptCachePrefix(cache, moduleId) ==
  [k \in {key \in DOMAIN cache : ~StartsWith(key, moduleId)} |-> cache[k]]

\* for (const key of keys) if (key === moduleId || key.startsWith(`${moduleId}:`)) delete
invalidateScriptCache(cache, moduleId) ==
  [k \in {key \in DOMAIN cache :
            ~(key = moduleId \/ StartsWith(key, moduleId \o <<":">>))} |-> cache[k]]

MaxCacheOps == 1

CacheModuleIds == { <<"M">>, <<"M", "N">>, <<"M", ":", "c">>, <<"N">> }

\* A call names a module and, or not, a callback; the name may be empty.
CacheTargets ==
  { [moduleId |-> m] : m \in CacheModuleIds }
    \cup { [moduleId |-> m, callback |-> c] : m \in CacheModuleIds, c \in {<<>>, <<"c">>} }

InitCache ==
  /\ pc = 0
  /\ args = [none |-> TRUE]
  /\ ret = [none |-> TRUE]
  /\ hise = NoClient
  /\ \E fetched \in SUBSET {t \in CacheTargets : t.moduleId # <<"M", ":", "c">>} :
       scriptCache = [key \in {getScriptCacheKey(t) : t \in fetched} |->
                        cacheScript(EmptyCache, [moduleId |-> key], <<"a">>, 0)[key]]

\* getScript(moduleId, callback) returns: a full script that came back is
\* cached under the key of the call; a failure or an empty script is not.
GetScriptReturned ==
  /\ pc < MaxCacheOps
  /\ \E target \in CacheTargets, script \in {<<>>, <<"b">>},
        success \in BOOLEAN, now \in Times(scriptCache) :
       /\ args' = [op |-> "getScript", params |-> target, success |-> success,
                   script |-> script]
       /\ scriptCache' = IF success /\ script # <<>>
                           THEN cacheScript(scriptCache, target, script, now)
                         ELSE scriptCache
  /\ ret' = [before |-> scriptCache]
  /\ pc' = pc + 1
  /\ hise' = hise

InvalidateScriptCacheCall ==
  /\ pc < MaxCacheOps
  /\ \E moduleId \in CacheModuleIds :
       /\ args' = [op |-> "invalidate", moduleId |-> moduleId]
       /\ scriptCache' = invalidateScriptCache(scriptCache, moduleId)
  /\ ret' = [before |-> scriptCache]
  /\ pc' = pc + 1
  /\ hise' = hise

NextCache == GetScriptReturned \/ InvalidateScriptCacheCall

SpecCache == InitCache /\ [][NextCache]_vars

\* The key is the id, or the id followed by ':' and more.
KeyOfDocument(key, id) ==
  \/ key = id
  \/ /\ Len(key) > Len(id)
     /\ \A i \in 1..Len(id) : key[i] = id[i]
     /\ key[Len(id) + 1] = ":"

NoColon(s) == \A i \in 1..Len(s) : s[i] # ":"

CacheKeysInjective ==
  (pc > 0 /\ args.op = "getScript") =>
    \A other \in CacheTargets :
      other # args.params =>
        getCachedScript(scriptCache, other) = getCachedScript(ret.before, other)

(***************************************************************************)
(* Error enrichment: parseCallstackEntry, formatCodeWithLineNumbers and    *)
(* enrichErrorsWithCodeContext, which setScript and recompile run on the   *)
(* errors of a response before they return it.  The repository holds two   *)
(* versions of the client; in one the excerpt is cut by getScript from a   *)
(* requested line range ("ranged"), in the other by the enrichment itself  *)
(* from the whole callback ("whole").  The pattern of a stack line is      *)
(*   ^ (\w+) \(\) at (\w+) \.js: (\d+) : (\d+) $                           *)
(***************************************************************************)
Max(a, b) == IF a > b THEN a ELSE b

\* What \w+ consumes, \w being a digit or one of the letters the model draws.
RECURSIVE WordPrefixLen(_)
WordPrefixLen(s) ==
  IF /\ Len(s) > 0
     /\ s # Fail
     /\ \/ IsDigit(s[1])
        \/ s[1] \in {"a", "b", "c", "e", "f", "i", "n", "o", "t", "u", "v", "M", "N", "_"}
    THEN 1 + WordPrefixLen(Tail(s))
  ELSE 0

\* A mutant: the pattern is not anchored at the end of the stack line.
parseCallstackEntryUnanchored(entry) ==
  LET Column(s, callback, moduleId, line) ==
        IF s = Fail \/ DigitPrefixLen(s) = 0
          THEN Null
        ELSE [callback |-> callback, moduleId |-> moduleId, line |-> line,
              column |-> ParseInt(Take(s, DigitPrefixLen(s)))]
      Line(s, callback, moduleId) ==
        IF s = Fail \/ DigitPrefixLen(s) = 0 THEN Null
        ELSE Column(Expect(Drop(s, DigitPrefixLen(s)), <<":">>), callback, moduleId,
                    ParseInt(Take(s, DigitPrefixLen(s))))
      Module(s, callback) ==
        IF s = Fail \/ WordPrefixLen(s) = 0 THEN Null
        ELSE Line(Expect(Drop(s, WordPrefixLen(s)), <<".", "j", "s", ":">>), callback,
                  Take(s, WordPrefixLen(s)))
  IN  IF WordPrefixLen(entry) = 0 THEN Null
      ELSE Module(Expect(Drop(entry, WordPrefixLen(entry)), <<"(", ")", " ", "a", "t", " ">>),
                  Take(entry, WordPrefixLen(entry)))

\* entry.match(pattern): null, or callback, moduleId, line and column
parseCallstackEntry(entry) ==
  LET Column(s, callback, moduleId, line) ==
        IF s = Fail \/ DigitPrefixLen(s) = 0 \/ DigitPrefixLen(s) # Len(s)
          THEN Null
        ELSE [callback |-> callback, moduleId |-> moduleId, line |-> line,
              column |-> ParseInt(s)]
      Line(s, callback, moduleId) ==
        IF s = Fail \/ DigitPrefixLen(s) = 0 THEN Null
        ELSE Column(Expect(Drop(s, DigitPrefixLen(s)), <<":">>), callback, moduleId,
                    ParseInt(Take(s, DigitPrefixLen(s))))
      Module(s, callback) ==
        IF s = Fail \/ WordPrefixLen(s) = 0 THEN Null
        ELSE Line(Expect(Drop(s, WordPrefixLen(s)), <<".", "j", "s", ":">>), callback,
                  Take(s, WordPrefixLen(s)))
  IN  IF WordPrefixLen(entry) = 0 THEN Null
      ELSE Module(Expect(Drop(entry, WordPrefixLen(entry)), <<"(", ")", " ", "a", "t", " ">>),
                  Take(entry, WordPrefixLen(entry)))

\* code.split('\n').map((line, i) => `${startLine + i}: ${line}`).join('\n')
formatCodeWithLineNumbers(code, startLine) ==
  LET Numbered(lines) ==
        [i \in 1..Len(lines) |-> NumberToString(startLine + i - 1) \o <<":", " ">> \o lines[i]]
  IN  Join(Numbered(Split(code, <<NL>>)), <<NL>>)

\* getScript with a line range: the indices are clamped to the script, the
\* slice holds at least one line, lineRange.start is its first line number.
getScriptRange(script, startLine, endLine) ==
  LET Sliced(lines, startIdx, actualEndIdx) ==
        [script |-> Join(SubSeq(lines, startIdx + 1, actualEndIdx), <<NL>>),
         start |-> startIdx + 1]
      From(lines, startIdx) ==
        Sliced(lines, startIdx, Max(startIdx + 1, Min(Len(lines), endLine)))
      Clamped(lines) == From(lines, Max(0, Min(startLine - 1, Len(lines) - 1)))
  IN  Clamped(Split(script, <<NL>>))

\* The code context the ranged client attaches, Null when it attaches none:
\* startLine = max(1, line - contextLines), endLine = line + contextLines.
CodeContextRanged(script, location, contextLines) ==
  LET Context(range) ==
        IF range.script = <<>> THEN Null
        ELSE [callback |-> location.callback, line |-> location.line,
              column |-> location.column,
              code |-> formatCodeWithLineNumbers(range.script, range.start)]
  IN  IF script = <<>> THEN Null
      ELSE Context(getScriptRange(script, Max(1, location.line - contextLines),
                                  location.line + contextLines))

\* The code context the whole-callback client attaches:
\* lines.slice(startLine - 1, endLine) with endLine = min(lines.length, line + contextLines).
CodeContextWhole(script, location, contextLines) ==
  LET Context(lines, startLine) ==
        [callback |-> location.callback, line |-> location.line, column |-> location.column,
         code |-> formatCodeWithLineNumbers(
                    Join(SubSeq(lines, startLine,
                                Min(Len(lines), location.line + contextLines)), <<NL>>),
                    startLine)]
  IN  IF script = <<>> THEN Null
      ELSE Context(Split(script, <<NL>>), Max(1, location.line - contextLines))

\* "callback() at moduleId.js:line:column"
StackEntry(callback, moduleId, line, column) ==
  callback \o <<"(", ")", " ", "a", "t", " ">> \o moduleId \o <<".", "j", "s", ":">>
    \o NumberToString(line) \o <<":">> \o NumberToString(column)

MaxContextLines == 1

\* The errors of a response: no call stack, a location in the module at a
\* line inside or outside the script, an anonymous function, a native
\* frame followed by a location, a location with text after it, a location
\* in another module.
EnrichErrors ==
  { [errorMessage |-> <<"e">>, callstack |-> callstack] :
      callstack \in
        {<<>>}
          \cup { <<StackEntry(<<"c">>, ModuleId, line, 1)>> : line \in 0..(MaxDocLines + 2) }
          \cup { <<StackEntry(<<"f", "u", "n", "c", "t", "i", "o", "n">>, ModuleId, 1, 1)>>,
                 << <<"n", "a", "t", "i", "v", "e">>, StackEntry(<<"c">>, ModuleId, 1, 1) >>,
                 <<StackEntry(<<"c">>, ModuleId, 1, 1) \o <<" ">>>>,
                 <<StackEntry(<<"c">>, <<"N">>, 1, 1)>> } }

\* The index of the first error from `from` on that a fetch is made for,
\* one past the last error when there is none:
\*   if (!error.callstack?.length) continue;
\*   if (!location || location.moduleId !== moduleId) continue;
NextFetch(errors, from, moduleId) ==
  LET NeedsContext(error) ==
        /\ Len(error.callstack) > 0
        /\ parseCallstackEntry(error.callstack[1]) # Null
        /\ parseCallstackEntry(error.callstack[1]).moduleId = moduleId
      First(need) ==
        IF need = {} THEN Len(errors) + 1 ELSE CHOOSE i \in need : \A j \in need : i <= j
  IN  First({i \in from..Len(errors) : NeedsContext(errors[i])})

InitEnrich ==
  /\ pc = "response"
  /\ \E errors \in {<<>>} \cup {<<first>> : first \in EnrichErrors}
                        \cup (EnrichErrors \X EnrichErrors),
        contextLines \in 1..MaxContextLines, client \in {"ranged", "whole"} :
       args = [moduleId |-> ModuleId, errors |-> errors, contextLines |-> contextLines,
               client |-> client]
  /\ ret = [none |-> TRUE]
  /\ \E ls \in SeqUpTo(PatchedLines, MaxDocLines) \ {<<>>} :
       hise = [script |-> Join(ls, <<NL>>), reads |-> 0, writes |-> 0]
  /\ scriptCache = EmptyCache

\* The loop up to its first await: errors without a location in the module
\* are passed over, for the first other one get_script is requested.
EnrichStart ==
  /\ pc = "response"
  /\ ret' = [errors |-> args.errors, i |-> NextFetch(args.errors, 1, args.moduleId),
             fetched |-> <<>>]
  /\ IF NextFetch(args.errors, 1, args.moduleId) > Len(args.errors)
       THEN pc' = "returned" /\ hise' = hise
     ELSE pc' = "context" /\ hise' = [hise EXCEPT !.reads = @ + 1]
  /\ UNCHANGED <<args, scriptCache>>

\* get_script answers for error i: with a script the context is attached
\* (the whole-callback client also caches the callback it fetched); a
\* failure or an exception leaves the error as it is.  The loop goes on to
\* the next fetch or returns.
EnrichFetched ==
  /\ pc = "context"
  /\ \E scriptResult \in GetScriptResponses, now \in Times(scriptCache) :
       LET location == parseCallstackEntry(ret.errors[ret.i].callstack[1])
           anonymous == location.callback = <<"f", "u", "n", "c", "t", "i", "o", "n">>
           answered == ~scriptResult.threw /\ scriptResult.success
           context == IF ~answered THEN Null
                      ELSE IF args.client = "ranged"
                        THEN CodeContextRanged(scriptResult.script, location, args.contextLines)
                      ELSE CodeContextWhole(scriptResult.script, location, args.contextLines)
           next == NextFetch(ret.errors, ret.i + 1, args.moduleId)
       IN  /\ ret' = [errors |-> IF context = Null THEN ret.errors
                                 ELSE [ret.errors EXCEPT ![ret.i] = @ @@ [codeContext |-> context]],
                      i |-> next,
                      fetched |-> Append(ret.fetched, [i |-> ret.i, answered |-> answered])]
           /\ scriptCache' =
                IF args.client = "whole" /\ answered /\ scriptResult.script # <<>>
                  THEN cacheScript(scriptCache,
                                   [moduleId |-> args.moduleId,
                                    callback |-> IF anonymous THEN <<"o", "n", "I", "n", "i", "t">>
                                                 ELSE location.callback],
                                   scriptResult.script, now)
                ELSE scriptCache
           /\ IF next > Len(ret.errors)
                THEN pc' = "returned" /\ hise' = hise
              ELSE pc' = "context" /\ hise' = [hise EXCEPT !.reads = @ + 1]
  /\ UNCHANGED args

NextEnrich == EnrichStart \/ EnrichFetched

SpecEnrich == InitEnrich /\ [][NextEnrich]_vars

\* Line n of the document as an excerpt shows it.
NumberedLine(document, n) == NumberToString(n) \o <<":", " ">> \o document[n]

\* C23: error excerpt: for an error at line L of a document of N lines and
\* contextLines = c the excerpt is exactly the lines max(1, L - c) through
\* min(N, L + c), in order, each after its own 1-based number; and no
\* excerpt ever shows a line number outside 1..N or a text that is not the
\* text of the line with that number.
ExcerptExact ==
  LET Exact(document, excerpt, first, last) ==
        /\ Len(excerpt) = last - first + 1
        /\ \A k \in 1..Len(excerpt) : excerpt[k] = NumberedLine(document, first + k - 1)
      Right(document, excerpt, line) ==
        /\ (1 <= line /\ line <= Len(document)) =>
             Exact(document, excerpt, Max(1, line - args.contextLines),
                   Min(Len(document), line + args.contextLines))
        /\ \A k \in 1..Len(excerpt) :
             \E n \in 1..Len(document) : excerpt[k] = NumberedLine(document, n)
  IN  pc = "returned" =>
        \A i \in 1..Len(ret.errors) :
          "codeContext" \in DOMAIN ret.errors[i] =>
            Right(Split(hise.script, <<NL>>),
                  Split(ret.errors[i].codeContext.code, <<NL>>),
                  ret.errors[i].codeContext.line)

\* The stack lines of the model that are a location in the module.
IsLocationIn(line, moduleId) ==
  \E callback \in {<<"c">>, <<"f", "u", "n", "c", "t", "i", "o", "n">>},
     n \in 0..(MaxDocLines + 2) :
    line = StackEntry(callback, moduleId, n, 1)

\* C24: error enrichment is best-effort: an error whose first stack line
\* is not a location gets no fetch and no excerpt, an error whose fetch
\* failed or threw gets no excerpt, every later error with a location in
\* the module still gets its fetch, and the call returns the errors of the
\* response, otherwise unchanged, without a write and without failing.
BestEffort ==
  LET Fetched(i) == \E f \in 1..Len(ret.fetched) : ret.fetched[f].i = i
      Answered(i) == \E f \in 1..Len(ret.fetched) :
                       ret.fetched[f].i = i /\ ret.fetched[f].answered
      Located(error) ==
        error.callstack # <<>> /\ IsLocationIn(error.callstack[1], args.moduleId)
  IN  /\ pc \in {"response", "context", "returned"}
      /\ pc = "returned" =>
           /\ Len(ret.errors) = Len(args.errors)
           /\ hise.reads = Len(ret.fetched)
           /\ hise.writes = 0
           /\ \A i \in 1..Len(args.errors) :
                /\ ret.errors[i].callstack = args.errors[i].callstack
                /\ ret.errors[i].errorMessage = args.errors[i].errorMessage
                /\ Fetched(i) <=> Located(args.errors[i])
                /\ ~Answered(i) => ret.errors[i] = args.errors[i]

\* The fetch for the first error threw or failed, the second error holds a
\* native frame, and the call returned.
BestEffortWitness ==
  /\ pc = "returned"
  /\ Len(args.errors) = 2
  /\ ret.fetched = <<[i |-> 1, answered |-> FALSE]>>
  /\ Len(args.errors[2].callstack) = 2
  /\ args.errors[2].callstack[1] = <<"n", "a", "t", "i", "v", "e">>
  /\ ret.errors = args.errors

(***************************************************************************)
(* HiseClient.setScript with its guard (the client that takes a callbacks  *)
(* object): for every requested callback the existing content is fetched   *)
(* and judged by shouldAllowSetScript, then one set_script request carries *)
(* all callbacks.  hise.callbacks is the content the store holds for each  *)
(* callback; ret.checked lists how each pre-check fetch went.  The         *)
(* enrichment of the errors of the response only reads; it is modelled on  *)
(* its own above.                                                          *)
(***************************************************************************)
\* A mutant: a pre-check fetch that throws rejects the request.
guardRejectsClosed(response, callbackName, maxLines) ==
  \/ response.threw
  \/ ~shouldAllowSetScript(IF callbackName \in DOMAIN response.callbacks
                             THEN response.callbacks[callbackName] ELSE <<>>,
                           maxLines)

\* The guard throws for a callback: the fetch answered and
\* shouldAllowSetScript(existing.callbacks?.[callbackName] || '', maxLines)
\* is false.  An exception of the fetch is caught and the callback allowed.
guardRejects(response, callbackName, maxLines) ==
  /\ ~response.threw
  /\ ~shouldAllowSetScript(IF callbackName \in DOMAIN response.callbacks
                             THEN response.callbacks[callbackName] ELSE <<>>,
                           maxLines)

InitSetScript ==
  /\ pc = "call"
  /\ \E names \in {<<>>, <<<<"c">>>>, <<<<"c">>, <<"d">>>>}, maxLines \in 0..MaxDocLines :
       args = [moduleId |-> ModuleId, names |-> names, content |-> <<"n">>,
               maxLines |-> maxLines]
  /\ ret = [none |-> TRUE]
  /\ \E existing \in [{<<"c">>, <<"d">>} ->
                        {Join(ls, <<NL>>) : ls \in SeqUpTo({<<"a">>}, MaxDocLines)}
                          \cup {<<" ", NL, " ">>}] :
       hise = [callbacks |-> existing, reads |-> 0, writes |-> 0]
  /\ scriptCache = EmptyCache

\* setScript up to its first await: the fetch for the first callback, or
\* with no callback the write at once.
SetScriptCall ==
  /\ pc = "call"
  /\ ret' = [k |-> 1, checked |-> <<>>]
  /\ IF args.names = <<>>
       THEN pc' = "write" /\ hise' = hise
     ELSE pc' = "check" /\ hise' = [hise EXCEPT !.reads = @ + 1]
  /\ UNCHANGED <<args, scriptCache>>

\* The fetch for callback k returns: with its content, without the
\* callback, or with an exception.  getScript caches what came back; the
\* guard throws or the loop goes on, after the last callback to the write.
SetScriptChecked ==
  /\ pc = "check"
  /\ \E outcome \in {"content", "absent", "threw"}, now \in Times(scriptCache) :
       LET name == args.names[ret.k]
           response ==
             [threw |-> outcome = "threw",
              callbacks |-> [n \in (IF outcome = "content" THEN {name} ELSE {}) |->
                               hise.callbacks[n]]]
       IN  /\ scriptCache' =
                IF outcome = "content"
                  THEN cacheScript(scriptCache, [moduleId |-> args.moduleId, callback |-> name],
                                   hise.callbacks[name], now)
                ELSE scriptCache
           /\ ret' = [k |-> ret.k + 1, checked |-> Append(ret.checked, outcome)]
           /\ IF guardRejects(response, name, args.maxLines)
                THEN pc' = "threw" /\ hise' = hise
              ELSE IF ret.k = Len(args.names)
                THEN pc' = "write" /\ hise' = hise
              ELSE pc' = "check" /\ hise' = [hise EXCEPT !.reads = @ + 1]
  /\ UNCHANGED args

\* setScriptInternal: the store answers the one set_script request; it
\* took the callbacks or not; the cache takes them when the response says
\* success and names them as updated.
SetScriptWritten ==
  /\ pc = "write"
  /\ \E threw \in BOOLEAN, success \in BOOLEAN, stored \in BOOLEAN, now \in Times(scriptCache) :
       /\ threw => ~success /\ ~stored
       /\ success => stored
       /\ hise' = [hise EXCEPT
                     !.callbacks = [n \in DOMAIN @ |->
                                      IF stored /\ \E k \in 1..Len(args.names) : args.names[k] = n
                                        THEN args.content ELSE @[n]],
                     !.writes = @ + 1]
       /\ pc' = IF threw THEN "threw" ELSE "done"
       /\ ret' = [k |-> ret.k, checked |-> ret.checked, threw |-> threw, success |-> success]
       /\ scriptCache' =
            IF success
              THEN [key \in DOMAIN scriptCache
                              \cup {getScriptCacheKey([moduleId |-> args.moduleId, callback |-> args.names[k]]) :
                                      k \in 1..Len(args.names)} |->
                      IF \E k \in 1..Len(args.names) :
                           key = getScriptCacheKey([moduleId |-> args.moduleId,
                                                    callback |-> args.names[k]])
                        THEN cacheScript(EmptyCache, [moduleId |-> key], args.content, now)[key]
                      ELSE scriptCache[key]]
            ELSE scriptCache
  /\ UNCHANGED args

NextSetScript == SetScriptCall \/ SetScriptChecked \/ SetScriptWritten

SpecSetScript == InitSetScript /\ [][NextSetScript]_vars

\* The content is non-blank and has more than maxLines lines.
LargeContent(content, maxLines) ==
  /\ \E i \in 1..Len(content) : content[i] \notin {" ", NL, "\t", "\r"}
  /\ Cardinality({i \in 1..Len(content) : content[i] = NL}) + 1 > maxLines

\* C28: full-replace gate: setScript sends no write to the store when the
\* store's existing content of at least one requested callback is
\* non-blank and has more than maxLines lines: no set_script request is
\* pending for such a request.
GateBlocksWrite ==
  pc = "write" =>
    \A k \in 1..Len(args.names) : ~LargeContent(hise.callbacks[args.names[k]], args.maxLines)

\* C29: the gate fails open: a callback whose pre-check fetch threw or
\* came back without the callback is treated as new; the request is
\* rejected only for a callback whose fetch returned large content, and
\* otherwise goes on to the write, also over large content in the store.
GateFailsOpen ==
  /\ (pc = "threw" /\ hise.writes = 0) =>
       /\ ret.checked[Len(ret.checked)] = "content"
       /\ LargeContent(hise.callbacks[args.names[Len(ret.checked)]], args.maxLines)
  /\ (pc = "check" /\ ret.checked # <<>>) =>
       \/ ret.checked[Len(ret.checked)] \in {"absent", "threw"}
       \/ ~LargeContent(hise.callbacks[args.names[Len(ret.checked)]], args.maxLines)
  /\ pc = "write" => Len(ret.checked) = Len(args.names)

GateFailsOpenWitness ==
  /\ pc = "write"
  /\ args.names = <<<<"c">>, <<"d">>>>
  /\ ret.checked = <<"threw", "absent">>
  /\ args.maxLines = 1
  /\ hise.callbacks[<<"c">>] = <<"a", NL, "a">>
  /\ hise.callbacks[<<"d">>] = <<"a", NL, "a">>

(***************************************************************************)
(* Two edit calls on the same document, running on the one event loop and  *)
(* interleaving at their awaits: editScript twice in the client with the   *)
(* script API, or patchScript and fixScriptLine in the client with the     *)
(* callbacks API.  pc, args and ret hold one entry per call.  The store    *)
(* takes a write when the request reaches it (RaceStored); the call goes   *)
(* on when the response has come back (RaceWritten).  ret[p].sent counts   *)
(* the write requests call p has sent, ret[p].seq is the position of its   *)
(* write among those the store took and ret[p].fin the position of its     *)
(* return among the returns.                                               *)
(***************************************************************************)
InitRace ==
  /\ pc = [p \in {1, 2} |-> "call"]
  /\ \E client \in {"script", "callbacks"} :
       args \in [{1, 2} ->
                   IF client = "script"
                     THEN { [kind |-> "editScript",
                             params |-> [moduleId |-> ModuleId, callback |-> <<"c">>] @@ op] :
                              op \in { [edits |-> <<[line |-> 1, content |-> <<"c">>]>>],
                                       [deleteLines |-> <<2>>],
                                       [none |-> TRUE],
                                       [edits |-> <<>>, deleteLines |-> <<>>] } }
                   ELSE { [kind |-> "patchScript",
                           params |-> [moduleId |-> ModuleId, callback |-> <<"c">>,
                                       patch |-> Join(<<HeaderWithCounts(<<"1">>, <<"1">>, <<"1">>, <<"1">>),
                                                        <<"-", "a">>, <<"+", "c">>>>, <<NL>>)]],
                          [kind |-> "patchScript",
                           params |-> [moduleId |-> ModuleId, callback |-> <<"c">>,
                                       patch |-> <<"-", "a">>]] }
                        \cup { [kind |-> "fixScriptLine",
                                params |-> [moduleId |-> ModuleId, callback |-> <<"c">>,
                                            line |-> line, content |-> <<"d">>]] :
                                 line \in {1, MaxDocLines + 1} }]
  /\ ret = [p \in {1, 2} |-> [sent |-> 0, fetched |-> <<>>, newScript |-> <<>>,
                               stored |-> FALSE, seq |-> 0, fin |-> 0]]
  /\ \E ls \in SeqUpTo(PatchedLines, MaxDocLines) \ {<<>>} :
       hise = [script |-> Join(ls, <<NL>>), reads |-> 0, writes |-> 0]
  /\ scriptCache = EmptyCache

\* An edit call up to its first await: editScript validates the count of
\* operation kinds; all three then request the current script.
RaceCall(p) ==
  /\ pc[p] = "call"
  /\ IF args[p].kind = "editScript" /\ Cardinality(operations(args[p].params)) # 1
       THEN pc' = [pc EXCEPT ![p] = "threw"] /\ hise' = hise
     ELSE pc' = [pc EXCEPT ![p] = "getScript"] /\ hise' = [hise EXCEPT !.reads = @ + 1]
  /\ UNCHANGED <<args, ret, scriptCache>>

\* The script comes back and is cached; the new script is computed
\* (line operation, patch or line fix) and the write request sent, or the
\* call throws without a write.
RaceFetched(p) ==
  /\ pc[p] = "getScript"
  /\ \E scriptResult \in GetScriptResponses, now \in Times(scriptCache) :
       LET Outcome(script) ==
             IF args[p].kind = "editScript"
               THEN LET Joined(computed) ==
                          [threw |-> computed.threw,
                           script |-> IF computed.threw THEN <<>>
                                      ELSE Join(computed.lines, <<NL>>)]
                    IN  Joined(ApplyOperation(Split(script, <<NL>>), args[p].params))
             ELSE IF args[p].kind = "patchScript"
               THEN LET Patched(patchResult) ==
                          [threw |-> ~patchResult.success,
                           script |-> IF patchResult.success THEN patchResult.script ELSE <<>>]
                    IN  Patched(applyPatchToScript(script, args[p].params.patch, NoOptions))
             ELSE LET Fixed(fixResult) ==
                        [threw |-> fixResult.threw,
                         script |-> IF fixResult.threw THEN <<>> ELSE fixResult.value]
                  IN  Fixed(fixLineInScript(script, args[p].params.line, args[p].params.content))
           Continue(outcome) ==
             /\ scriptCache' = cacheScript(scriptCache, args[p].params, scriptResult.script, now)
             /\ pc' = [pc EXCEPT ![p] = IF outcome.threw THEN "threw" ELSE "setScript"]
             /\ ret' = [ret EXCEPT ![p].fetched = scriptResult.script,
                                   ![p].newScript = outcome.script,
                                   ![p].sent = IF outcome.threw THEN @ ELSE @ + 1]
       IN  IF scriptResult.threw \/ ~scriptResult.success \/ scriptResult.script = <<>>
             THEN /\ pc' = [pc EXCEPT ![p] = "threw"]
                  /\ UNCHANGED <<ret, scriptCache>>
           ELSE Continue(Outcome(scriptResult.script))
  /\ UNCHANGED <<args, hise>>

\* The write request of call p reaches the store, which takes the script
\* or refuses it.
RaceStored(p) ==
  /\ pc[p] = "setScript"
  /\ \E stored \in BOOLEAN :
       /\ hise' = [hise EXCEPT !.script = IF stored THEN ret[p].newScript ELSE @,
                                !.writes = @ + 1]
       /\ ret' = [ret EXCEPT ![p].stored = stored, ![p].seq = hise.writes + 1]
  /\ pc' = [pc EXCEPT ![p] = "stored"]
  /\ UNCHANGED <<args, scriptCache>>

\* The response of the write comes back, or the request fails (also one
\* that never reached the store): setScript returns and the call caches its
\* new script, or the exception leaves the call.
RaceWritten(p) ==
  /\ pc[p] \in {"setScript", "stored"}
  /\ \E threw \in BOOLEAN, now \in Times(scriptCache) :
       /\ pc[p] = "setScript" => threw
       /\ pc' = [pc EXCEPT ![p] = IF threw THEN "threw" ELSE "done"]
       /\ scriptCache' = IF threw THEN scriptCache
                         ELSE cacheScript(scriptCache, args[p].params, ret[p].newScript, now)
       /\ ret' = [ret EXCEPT ![p].fin =
                    IF threw THEN @ ELSE 1 + Cardinality({q \in DOMAIN ret : ret[q].fin > 0})]
  /\ UNCHANGED <<args, hise>>

NextRace == \E p \in {1, 2} : RaceCall(p) \/ RaceFetched(p) \/ RaceStored(p) \/ RaceWritten(p)

SpecRace == InitRace /\ [][NextRace]_vars

\* C22: racing edits: once both calls have returned and the store took the
\* writes of both, the cache entry of the document holds the script of the
\* write that reached the store last, which is the script the store holds.
RacingEditsAgree ==
  (\A p \in DOMAIN pc : pc[p] = "done" /\ ret[p].stored) =>
    \A p \in DOMAIN pc :
      (\A q \in DOMAIN pc : ret[q].seq <= ret[p].seq) =>
        /\ scriptCache[getScriptCacheKey(args[p].params)].script = ret[p].newScript
        /\ scriptCache[getScriptCacheKey(args[p].params)].script = hise.script

\* The call fails before its write: no single operation kind, a line out
\* of range for the fetched script, a patch that does not apply to it.
FailsBeforeWrite(call, fetched) ==
  IF call.kind = "editScript"
    THEN \/ Cardinality(OperationKinds \cap DOMAIN call.params) # 1
         \/ ~InRange(call.params, Len(Split(fetched, <<NL>>)))
  ELSE IF call.kind = "patchScript"
    THEN ~applyPatchToScript(fetched, call.params.patch, NoOptions).success
  ELSE call.params.line < 1 \/ call.params.line > Len(Split(fetched, <<NL>>))

\* C27: no retry: every edit call sends at most one write request, none
\* when its validation or its patch or line operation fails or the fetch
\* fails, and the store receives no more writes than were sent; a call
\* whose write failed has ended with its one request.
NoRetry ==
  /\ \A p \in DOMAIN pc :
       /\ ret[p].sent <= 1
       /\ ret[p].sent = 1 => ~FailsBeforeWrite(args[p], ret[p].fetched)
       /\ ret[p].sent = 1 => ret[p].fetched # <<>>
       /\ pc[p] \in {"setScript", "stored", "done"} => ret[p].sent = 1
       /\ ret[p].seq > 0 => ret[p].sent = 1
  /\ hise.writes <= ret[1].sent + ret[2].sent

NoRetryWitness ==
  /\ pc[1] = "threw"
  /\ ret[1].sent = 1
  /\ ret[1].seq = 1
  /\ ~ret[1].stored
  /\ pc[2] = "threw"
  /\ ret[2].sent = 0
  /\ ret[2].fetched # <<>>
  /\ hise.writes = 1

=============================================================================
